---- MODULE Spec2Model ----
(***************************************************************************)
(* Model of pocketpaw, starting with its encrypted credential store        *)
(* (src/src/pocketpaw/credentials.py).                                      *)
(*                                                                         *)
(* The state is one config_dir (the files secrets.enc and .salt), the      *)
(* machine identity of the running process, and the CredentialStore        *)
(* instances of that process, each with its own _cache.  One action per    *)
(* public method; the environment (another tool, a restart on another      *)
(* machine, the caller mutating a returned dict) has its own actions.      *)
(*                                                                         *)
(* Further sections model the agent loop's error path, the StatsManager,   *)
(* the AnalyticsCollector, collect_health, the PIIScanner, the reflection  *)
(* loop, the WhatsApp adapter's stream buffers, the Open Interpreter       *)
(* agent's lock, the lifecycle registry and the TunnelManager, each under  *)
(* a specification of its own; the variables of the other parts then hold  *)
(* Unused.                                                                 *)
(***************************************************************************)
EXTENDS Integers, FiniteSets, Sequences, TLC

(***************************************************************************)
(* Bounds and value sets                                                   *)
(***************************************************************************)
\* field names (two of SECRET_FIELDS) and secret values
Names == {"openai_api_key", "tavily_api_key"}
Values == {"sk-1", "sk-2"}
\* machine identities ("machine-id|login")
Idents == {"hostA|u", "hostB|u"}
\* CredentialStore instances that can exist in the process
Inst == {1, 2}
\* number of distinct salts os.urandom can hand out in one behaviour
MaxSalts == 2
\* length of a salt, and the lengths of a too-short .salt file
SaltLen == 16
ShortLens == {15}
\* how a call can be refused a file write: not at all, on .salt, on secrets.enc
WriteFaults == {"none", "salt", "secrets"}

None == "None"

(***************************************************************************)
(* Python values                                                           *)
(***************************************************************************)
EmptyDict == [x \in {} |-> None]
Dicts == UNION {[S -> Values] : S \in SUBSET Names}

\* an object a _cache attribute can refer to: None, a dict, or (after
\* json.loads of a JSON array) a list
PyNone == [k |-> "None", d |-> EmptyDict]
PyDict(d) == [k |-> "dict", d |-> d]
PyList == [k |-> "list", d |-> EmptyDict]

\* dict.get(name)
Lookup(d, n) == IF n \in DOMAIN d THEN d[n] ELSE None
\* variant: the dict is replaced by one that holds only the new item
StoreItemClobber(d, n, v) == [x \in {n} |-> v]

\* data[name] = value
StoreItem(d, n, v) == [x \in (DOMAIN d) \cup {n} |-> IF x = n THEN v ELSE d[x]]
\* del data[name]
DelItem(d, n) == [x \in (DOMAIN d) \ {n} |-> d[x]]

(***************************************************************************)
(* Files                                                                   *)
(***************************************************************************)
\* plaintexts a Fernet token can wrap: a JSON object, the JSON array [],
\* JSON null, bytes that are not JSON
Plain(k, d) == [k |-> k, d |-> d]
Plains == {Plain("dict", d) : d \in Dicts}
            \cup {Plain("list", EmptyDict), Plain("null", EmptyDict),
                  Plain("notjson", EmptyDict)}

\* the Fernet key: PBKDF2 of the identity under the salt (distinct inputs
\* give distinct keys)
Key(salt, id) == <<salt, id>>

NoPlain == Plain("none", EmptyDict)
Absent == [k |-> "absent", key |-> Key(0, ""), p |-> NoPlain]
Garbage == [k |-> "garbage", key |-> Key(0, ""), p |-> NoPlain]
\* fernet.encrypt(plaintext) under key
Token(key, p) == [k |-> "token", key |-> key, p |-> p]

NoSalt == [exists |-> FALSE, len |-> 0, id |-> 0]
SaltOf(id) == [exists |-> TRUE, len |-> SaltLen, id |-> id]
ShortSalt(l) == [exists |-> TRUE, len |-> l, id |-> 0]

VARIABLES
    cache,      \* cache[i]: the object self._cache of instance i refers to
    secrets,    \* content of <config_dir>/secrets.enc
    saltFile,   \* content of <config_dir>/.salt
    saltsUsed,  \* how many salts os.urandom has produced so far
    ident,      \* machine identity of the running process
    last,       \* the last call: operation, instance, arguments, outcome
    ret,        \* what the last call returned
    lastSet,    \* history: lastSet[n] is the value of the last successful
                \* set(n, _) not followed by a set/delete of n or by an
                \* out-of-band change; None otherwise
    clean,      \* history: no write has failed and nothing else has touched
                \* the files so far
    cleared,    \* history: the instances whose last call was clear_cache
    writer,     \* history: the instance whose call last wrote secrets.enc,
                \* 0 if that instance is gone or something else wrote since
    stats,      \* the StatsManager (pocketclaw/stats/manager.py)
    collector,  \* the AnalyticsCollector (pocketclaw/analytics/collector.py)
    health,     \* the inputs and the result of collect_health
    loop,       \* the AgentLoop handling one message
    pii,        \* a PIIScanner and the text it scans (pocketpaw/security/pii.py)
    reflect,    \* one reflect_and_correct call (pocketclaw/reflection.py)
    whatsapp,   \* the WhatsAppAdapter (pocketpaw/bus/adapters/whatsapp_adapter.py)
    interp,     \* the OpenInterpreterAgent and the run() calls on it
    lifecycle,  \* the lifecycle registry (pocketpaw/lifecycle.py)
    tunnel      \* the TunnelManager and the processes it spawned

vars == <<cache, secrets, saltFile, saltsUsed, ident, last, ret, lastSet,
          clean, cleared, writer, stats, collector, health, loop,
          pii, reflect, whatsapp, interp, lifecycle, tunnel>>

\* the parts of the program a specification leaves out hold this value
Unused == "unused"

\* the state outside the credential store
laterVars == <<pii, reflect, whatsapp, interp, lifecycle, tunnel>>
NotCred == <<stats, collector, health, loop, laterVars>>

\* the state of the credential store, and the state outside each other part
credVars == <<cache, secrets, saltFile, saltsUsed, ident, last, ret, lastSet,
              clean, cleared, writer>>
NotStats == <<credVars, collector, health, loop, laterVars>>
NotCollector == <<credVars, stats, health, loop, laterVars>>
NotHealth == <<credVars, stats, collector, loop, laterVars>>
NotLoop == <<credVars, stats, collector, health, laterVars>>

\* a specification without the credential store
CredUnused ==
    /\ cache = Unused /\ secrets = Unused /\ saltFile = Unused
    /\ saltsUsed = Unused /\ ident = Unused /\ last = Unused /\ ret = Unused
    /\ lastSet = Unused /\ clean = Unused /\ cleared = Unused
    /\ writer = Unused

LaterUnused ==
    /\ pii = Unused /\ reflect = Unused /\ whatsapp = Unused
    /\ interp = Unused /\ lifecycle = Unused /\ tunnel = Unused

\* the state outside each of the later parts
earlyVars == <<credVars, stats, collector, health, loop>>
NotPii == <<earlyVars, reflect, whatsapp, interp, lifecycle, tunnel>>
NotReflect == <<earlyVars, pii, whatsapp, interp, lifecycle, tunnel>>
NotWhatsapp == <<earlyVars, pii, reflect, interp, lifecycle, tunnel>>
NotInterp == <<earlyVars, pii, reflect, whatsapp, lifecycle, tunnel>>
NotLifecycle == <<earlyVars, pii, reflect, whatsapp, interp, tunnel>>
NotTunnel == <<earlyVars, pii, reflect, whatsapp, interp, lifecycle>>

EarlyUnused ==
    /\ CredUnused
    /\ stats = Unused /\ collector = Unused /\ health = Unused
    /\ loop = Unused

(***************************************************************************)
(* Private methods, as functions from the state a method sees to the       *)
(* state it leaves.  st.cache is self._cache, st.secrets and st.salt are   *)
(* the two files, st.used counts the salts drawn from os.urandom.  wf says *)
(* which file write the filesystem refuses during the call (OSError, the   *)
(* file is left as it was).                                                *)
(***************************************************************************)
St(i) == [cache |-> cache[i], secrets |-> secrets, salt |-> saltFile,
          used |-> saltsUsed]

\* variant: a .salt of exactly 16 bytes counts as too short
GetOrCreateSaltStrict(st, wf) ==
    IF st.salt.exists /\ st.salt.len > SaltLen
    THEN [raised |-> "", salt |-> st.salt.id, st |-> st]
    ELSE IF wf = "salt"
         THEN [raised |-> "OSError", salt |-> 0, st |-> st]
         ELSE [raised |-> "", salt |-> st.used + 1,
               st |-> [st EXCEPT !.salt = SaltOf(st.used + 1),
                                 !.used = st.used + 1]]

\* variant: a fresh salt is written whatever .salt holds
GetOrCreateSaltAnew(st, wf) ==
    IF wf = "salt"
    THEN [raised |-> "OSError", salt |-> 0, st |-> st]
    ELSE [raised |-> "", salt |-> st.used + 1,
          st |-> [st EXCEPT !.salt = SaltOf(st.used + 1),
                            !.used = st.used + 1]]

\* _get_or_create_salt: the first 16 bytes of an existing .salt of at least
\* 16 bytes, else a fresh salt written to .salt
GetOrCreateSalt(st, wf) ==
    IF st.salt.exists /\ st.salt.len >= SaltLen
    THEN [raised |-> "", salt |-> st.salt.id, st |-> st]
    ELSE IF wf = "salt"
         THEN [raised |-> "OSError", salt |-> 0, st |-> st]
         ELSE [raised |-> "", salt |-> st.used + 1,
               st |-> [st EXCEPT !.salt = SaltOf(st.used + 1),
                                 !.used = st.used + 1]]

\* _derive_key
DeriveKey(st, id, wf) ==
    LET s == GetOrCreateSalt(st, wf)
    IN [raised |-> s.raised, key |-> Key(s.salt, id), st |-> s.st]

\* variant: the token is opened whatever key made it
DecryptAnyKey(key, file) ==
    IF file.k = "token" THEN file.p ELSE NoPlain

\* fernet.decrypt: the plaintext of a token made under the same key,
\* NoPlain for InvalidToken
Decrypt(key, file) ==
    IF file.k = "token" /\ file.key = key THEN file.p ELSE NoPlain

\* json.loads, followed by the len() of the debug line: the object the
\* cache is set to, or PyNone when either raises
JsonLoads(p) ==
    CASE p.k = "dict" -> PyDict(p.d)
      [] p.k = "list" -> PyList
      [] OTHER -> PyNone

\* variant: a file that fails to load is removed
LoadDropsCorrupt(st, id, wf) ==
    IF st.cache.k # "None"
    THEN [how |-> "cached", wfail |-> FALSE, st |-> st]
    ELSE IF st.secrets.k = "absent"
    THEN [how |-> "absent", wfail |-> FALSE,
          st |-> [st EXCEPT !.cache = PyDict(EmptyDict)]]
    ELSE LET dk == DeriveKey(st, id, wf)
             obj == JsonLoads(Decrypt(dk.key, dk.st.secrets))
         IN IF dk.raised # "" \/ obj = PyNone
            THEN [how |-> "failed", wfail |-> dk.raised # "",
                  st |-> [dk.st EXCEPT !.cache = PyDict(EmptyDict),
                                       !.secrets = Absent]]
            ELSE [how |-> "decrypted", wfail |-> FALSE,
                  st |-> [dk.st EXCEPT !.cache = obj]]

\* _load
Load(st, id, wf) ==
    IF st.cache.k # "None"
    THEN [how |-> "cached", wfail |-> FALSE, st |-> st]
    ELSE IF st.secrets.k = "absent"
    THEN [how |-> "absent", wfail |-> FALSE,
          st |-> [st EXCEPT !.cache = PyDict(EmptyDict)]]
    ELSE LET dk == DeriveKey(st, id, wf)
             obj == JsonLoads(Decrypt(dk.key, dk.st.secrets))
         IN IF dk.raised # "" \/ obj = PyNone
            THEN [how |-> "failed", wfail |-> dk.raised # "",
                  st |-> [dk.st EXCEPT !.cache = PyDict(EmptyDict)]]
            ELSE [how |-> "decrypted", wfail |-> FALSE,
                  st |-> [dk.st EXCEPT !.cache = obj]]

\* variant: the cache is set but the file is not written
SaveSkipsWrite(st, id, data, wf) ==
    LET dk == DeriveKey(st, id, wf)
    IN IF dk.raised # ""
       THEN [raised |-> dk.raised, st |-> dk.st]
       ELSE IF wf = "secrets"
       THEN [raised |-> "OSError", st |-> dk.st]
       ELSE [raised |-> "", st |-> [dk.st EXCEPT !.cache = PyDict(data)]]

\* _save
Save(st, id, data, wf) ==
    LET dk == DeriveKey(st, id, wf)
    IN IF dk.raised # ""
       THEN [raised |-> dk.raised, st |-> dk.st]
       ELSE IF wf = "secrets"
       THEN [raised |-> "OSError", st |-> dk.st]
       ELSE [raised |-> "",
             st |-> [dk.st EXCEPT !.secrets = Token(dk.key, Plain("dict", data)),
                                  !.cache = PyDict(data)]]

\* the object a call on instance i works on: its cache, loaded if need be
View(i) == Load(St(i), ident, "none").st.cache

(***************************************************************************)
(* Call records                                                            *)
(***************************************************************************)
\* how: the branch _load took; reread: the call is the first one of its
\* instance after a clear_cache; saved: the call ran _save to its end; log:
\* the log records the call emitted, then the exception it raised, if any
Call(op, i, n, v, raised, how) ==
    [op |-> op, i |-> i, name |-> n, value |-> v, raised |-> raised,
     how |-> how, reread |-> i \in cleared, saved |-> FALSE, log |-> <<>>]

(***************************************************************************)
(* Log records and exception messages: the format string and the values    *)
(* interpolated into it, as text                                           *)
(***************************************************************************)
Rec(level, msg, args) == [level |-> level, msg |-> msg, args |-> args]

\* %d of the number of entries of d
Count(d) == <<"0", "1", "2">>[Cardinality(DOMAIN d) + 1]

\* %s of self._secrets_path
SecretsPath == "config_dir/secrets.enc"

\* str(exc) of the exceptions the store meets
ExcText(kind) ==
    CASE kind = "InvalidToken" -> ""
      [] kind = "JSONDecodeError" -> "Expecting value: line 1 column 1 (char 0)"
      [] kind = "NoLen" -> "object of type 'NoneType' has no len()"
      [] kind = "OSError" -> "[Errno 13] Permission denied: 'config_dir'"
      [] kind = "AttributeError" -> "'list' object has no attribute 'get'"
      [] kind = "TypeError" -> "list indices must be integers or slices, not str"

\* the exception that leaves the call, with its message
Raise(kind) == IF kind = "" THEN <<>> ELSE <<Rec("raise", ExcText(kind), <<>>)>>

\* the records of _load
LoadLog(st, id, wf) ==
    IF st.cache.k # "None" THEN <<>>
    ELSE IF st.secrets.k = "absent"
    THEN <<Rec("debug", "Credential store not found at %s; starting empty.",
               <<SecretsPath>>)>>
    ELSE LET dk == DeriveKey(st, id, wf)
             p == Decrypt(dk.key, dk.st.secrets)
             failed == "Failed to decrypt secrets.enc (machine changed? corrupted?): %s. Starting with empty credential store."
         IN CASE dk.raised # "" ->
                   <<Rec("warning", failed, <<ExcText(dk.raised)>>)>>
              [] dk.raised = "" /\ p = NoPlain ->
                   <<Rec("warning", failed, <<ExcText("InvalidToken")>>)>>
              [] dk.raised = "" /\ p.k = "notjson" ->
                   <<Rec("warning", failed, <<ExcText("JSONDecodeError")>>)>>
              [] dk.raised = "" /\ p.k = "null" ->
                   <<Rec("warning", failed, <<ExcText("NoLen")>>)>>
              [] OTHER ->
                   <<Rec("debug",
                         "Loaded %d credential(s) from encrypted store at %s.",
                         <<Count(p.d), SecretsPath>>)>>

\* the record of _save, written once the file is
SaveLog(data, raised) ==
    IF raised # "" THEN Raise(raised)
    ELSE <<Rec("debug", "Persisted %d credential(s) to encrypted store at %s.",
               <<Count(data), SecretsPath>>)>>

\* variant: the value found is logged
GetLogShowsValue(n, v) ==
    IF v = None
    THEN <<Rec("debug", "Credential '%s' not found in store.", <<n>>)>>
    ELSE <<Rec("debug", "Credential '%s' loaded from store.", <<v>>)>>

\* the record of get: the name, found or not
GetLog(n, v) ==
    IF v = None
    THEN <<Rec("debug", "Credential '%s' not found in store.", <<n>>)>>
    ELSE <<Rec("debug", "Credential '%s' loaded from store.", <<n>>)>>

\* the record of delete
DeleteLog(n) == <<Rec("debug", "Credential '%s' removed from store.", <<n>>)>>

\* the record of get_all
GetAllLog(d) ==
    <<Rec("debug", "Returning copy of %d credential(s) from store.",
          <<Count(d)>>)>>

NoRet == [k |-> "None", s |-> "", d |-> EmptyDict, ref |-> "new"]
StrRet(v) == IF v = None THEN NoRet
             ELSE [k |-> "str", s |-> v, d |-> EmptyDict, ref |-> "new"]
\* variant: the cache object itself is returned
AliasOf(d) == [k |-> "dict", s |-> "", d |-> d, ref |-> "cache"]

\* dict(self._load()): a new dict with the same items
CopyOf(d) == [k |-> "dict", s |-> "", d |-> d, ref |-> "new"]

NothingSet == [n \in Names |-> None]

Apply(i, st) ==
    /\ cache' = [cache EXCEPT ![i] = st.cache]
    /\ cleared' = cleared \ {i}
    /\ secrets' = st.secrets
    /\ saltFile' = st.salt
    /\ saltsUsed' = st.used

(***************************************************************************)
(* Public methods                                                          *)
(***************************************************************************)
\* CredentialStore.__init__: a new instance takes the place of instance i
NewStore(i) ==
    /\ cache' = [cache EXCEPT ![i] = PyNone]
    /\ cleared' = cleared \ {i}
    /\ last' = Call("init", i, "", "", "", "")
    /\ ret' = NoRet
    /\ writer' = IF writer = i THEN 0 ELSE writer
    /\ UNCHANGED <<secrets, saltFile, saltsUsed, ident, lastSet, clean,
                   NotCred>>

\* CredentialStore.get
Get(i, n, wf) ==
    LET ld == Load(St(i), ident, wf)
        data == ld.st.cache
    IN /\ Apply(i, ld.st)
       /\ IF data.k = "dict"
          THEN /\ last' = [Call("get", i, n, "", "", ld.how)
                             EXCEPT !.log = LoadLog(St(i), ident, wf)
                                              \o GetLog(n, Lookup(data.d, n))]
               /\ ret' = StrRet(Lookup(data.d, n))
          ELSE /\ last' = [Call("get", i, n, "", "AttributeError", ld.how)
                             EXCEPT !.log = LoadLog(St(i), ident, wf)
                                              \o Raise("AttributeError")]
               /\ ret' = NoRet
       /\ clean' = (clean /\ ~ld.wfail)
       /\ UNCHANGED <<ident, lastSet, writer,
                      NotCred>>

\* CredentialStore.set: data is the cache object itself, the item is
\* assigned before _save runs
Set(i, n, v, wf) ==
    LET ld == Load(St(i), ident, wf)
        data == ld.st.cache
    IN IF data.k = "dict"
       THEN LET assigned == StoreItem(data.d, n, v)
                sv == Save([ld.st EXCEPT !.cache = PyDict(assigned)],
                           ident, assigned, wf)
            IN /\ Apply(i, sv.st)
               /\ last' = [Call("set", i, n, v, sv.raised, ld.how)
                             EXCEPT !.saved = (sv.raised = ""),
                                    !.log = LoadLog(St(i), ident, wf)
                                              \o SaveLog(assigned, sv.raised)]
               /\ ret' = NoRet
               /\ lastSet' = [lastSet EXCEPT
                                ![n] = IF sv.raised = "" THEN v ELSE None]
               /\ clean' = (clean /\ ~ld.wfail /\ sv.raised = "")
               /\ writer' = IF last'.saved THEN i ELSE writer
               /\ UNCHANGED <<ident, NotCred>>
       ELSE /\ Apply(i, ld.st)
            /\ last' = [Call("set", i, n, v, "TypeError", ld.how)
                          EXCEPT !.log = LoadLog(St(i), ident, wf)
                                           \o Raise("TypeError")]
            /\ ret' = NoRet
            /\ lastSet' = [lastSet EXCEPT ![n] = None]
            /\ clean' = (clean /\ ~ld.wfail)
            /\ UNCHANGED <<ident, writer, NotCred>>

\* variant: the map is saved whether or not the name was in it
DeleteAlwaysSaves(i, n, wf) ==
    LET ld == Load(St(i), ident, wf)
        data == ld.st.cache
    IN IF data.k = "dict"
       THEN LET removed == DelItem(data.d, n)
                sv == Save([ld.st EXCEPT !.cache = PyDict(removed)],
                           ident, removed, wf)
            IN /\ Apply(i, sv.st)
               /\ last' = [Call("delete", i, n, "", sv.raised, ld.how)
                             EXCEPT !.saved = (sv.raised = ""
                                                 /\ n \in DOMAIN data.d),
                                    !.log = LoadLog(St(i), ident, wf)
                                              \o SaveLog(removed, sv.raised)
                                              \o (IF sv.raised = ""
                                                  THEN DeleteLog(n)
                                                  ELSE <<>>)]
               /\ ret' = NoRet
               /\ lastSet' = [lastSet EXCEPT ![n] = None]
               /\ clean' = (clean /\ ~ld.wfail /\ sv.raised = "")
               /\ writer' = IF last'.saved THEN i ELSE writer
               /\ UNCHANGED <<ident, NotCred>>
       ELSE /\ Apply(i, ld.st)
            /\ last' = [Call("delete", i, n, "", "", ld.how)
                          EXCEPT !.log = LoadLog(St(i), ident, wf)]
            /\ ret' = NoRet
            /\ lastSet' = [lastSet EXCEPT ![n] = None]
            /\ clean' = (clean /\ ~ld.wfail)
            /\ UNCHANGED <<ident, writer, NotCred>>

\* CredentialStore.delete
Delete(i, n, wf) ==
    LET ld == Load(St(i), ident, wf)
        data == ld.st.cache
    IN IF data.k = "dict" /\ n \in DOMAIN data.d
       THEN LET removed == DelItem(data.d, n)
                sv == Save([ld.st EXCEPT !.cache = PyDict(removed)],
                           ident, removed, wf)
            IN /\ Apply(i, sv.st)
               /\ last' = [Call("delete", i, n, "", sv.raised, ld.how)
                             EXCEPT !.saved = (sv.raised = ""),
                                    !.log = LoadLog(St(i), ident, wf)
                                              \o SaveLog(removed, sv.raised)
                                              \o (IF sv.raised = ""
                                                  THEN DeleteLog(n)
                                                  ELSE <<>>)]
               /\ ret' = NoRet
               /\ lastSet' = [lastSet EXCEPT ![n] = None]
               /\ clean' = (clean /\ ~ld.wfail /\ sv.raised = "")
               /\ writer' = IF last'.saved THEN i ELSE writer
               /\ UNCHANGED <<ident, NotCred>>
       ELSE /\ Apply(i, ld.st)
            /\ last' = [Call("delete", i, n, "", "", ld.how)
                          EXCEPT !.log = LoadLog(St(i), ident, wf)]
            /\ ret' = NoRet
            /\ lastSet' = [lastSet EXCEPT ![n] = None]
            /\ clean' = (clean /\ ~ld.wfail)
            /\ UNCHANGED <<ident, writer, NotCred>>

\* CredentialStore.get_all (dict([]) of a list cache is the empty dict)
GetAll(i, wf) ==
    LET ld == Load(St(i), ident, wf)
        data == ld.st.cache
    IN /\ Apply(i, ld.st)
       /\ last' = [Call("get_all", i, "", "", "", ld.how)
                     EXCEPT !.log = LoadLog(St(i), ident, wf)
                                      \o GetAllLog(data.d)]
       /\ ret' = CopyOf(data.d)
       /\ clean' = (clean /\ ~ld.wfail)
       /\ UNCHANGED <<ident, lastSet, writer,
                      NotCred>>

\* variant: the cache is left in place
ClearCacheKeeps(i) ==
    /\ cleared' = cleared \cup {i}
    /\ last' = [Call("clear_cache", i, "", "", "", "") EXCEPT !.reread = FALSE]
    /\ ret' = NoRet
    /\ UNCHANGED <<cache, secrets, saltFile, saltsUsed, ident, lastSet, clean,
                   writer, NotCred>>

\* CredentialStore.clear_cache
ClearCache(i) ==
    /\ cache' = [cache EXCEPT ![i] = PyNone]
    /\ cleared' = cleared \cup {i}
    /\ last' = [Call("clear_cache", i, "", "", "", "") EXCEPT !.reread = FALSE]
    /\ ret' = NoRet
    /\ UNCHANGED <<secrets, saltFile, saltsUsed, ident, lastSet, clean,
                   writer, NotCred>>

(***************************************************************************)
(* The environment                                                         *)
(***************************************************************************)
\* the caller changes the dict the last get_all returned: x is the new value
\* of key n, None to remove it.  A dict that is the cache object itself
\* (ref = "cache") changes with it.
MutateRet(n, x) ==
    /\ ret.k = "dict"
    /\ LET d == IF x = None THEN DelItem(ret.d, n) ELSE StoreItem(ret.d, n, x)
       IN /\ d # ret.d
          /\ ret' = [ret EXCEPT !.d = d]
          /\ cache' = IF ret.ref = "cache"
                      THEN [cache EXCEPT ![last.i] = PyDict(d)]
                      ELSE cache
    /\ last' = [last EXCEPT !.op = "mutate", !.name = n, !.how = "",
                            !.reread = FALSE, !.saved = FALSE, !.log = <<>>]
    /\ UNCHANGED <<secrets, saltFile, saltsUsed, ident, lastSet, clean, cleared,
                   writer, NotCred>>

\* contents another tool can leave in secrets.enc: none (file removed),
\* garbage, or a token made under the current salt and identity
ExtContents ==
    {Absent, Garbage}
      \cup (IF saltFile.exists /\ saltFile.len >= SaltLen
            THEN {Token(Key(saltFile.id, ident), p) : p \in Plains}
            ELSE {})

\* secrets.enc is replaced, removed or corrupted out-of-band
ExtSecrets(f) ==
    /\ f \in ExtContents
    /\ f # secrets
    /\ secrets' = f
    /\ last' = Call("ext_secrets", 0, "", "", "", "")
    /\ ret' = NoRet
    /\ lastSet' = NothingSet
    /\ writer' = 0
    /\ clean' = FALSE
    /\ UNCHANGED <<cache, saltFile, saltsUsed, ident, cleared,
                   NotCred>>

\* .salt is removed or cut short out-of-band (only while os.urandom has a
\* salt left to hand out)
ExtSalt(f) ==
    /\ saltsUsed < MaxSalts
    /\ f \in {NoSalt} \cup {ShortSalt(l) : l \in ShortLens}
    /\ f # saltFile
    /\ saltFile' = f
    /\ last' = Call("ext_salt", 0, "", "", "", "")
    /\ ret' = NoRet
    /\ lastSet' = NothingSet
    /\ writer' = 0
    /\ clean' = FALSE
    /\ UNCHANGED <<cache, secrets, saltsUsed, ident, cleared,
                   NotCred>>

\* the process ends and config_dir is next used by a process with another
\* machine identity: every instance starts with an empty cache
Restart(id) ==
    /\ id # ident
    /\ ident' = id
    /\ cache' = [i \in Inst |-> PyNone]
    /\ cleared' = {}
    /\ last' = Call("restart", 0, "", "", "", "")
    /\ ret' = NoRet
    /\ lastSet' = NothingSet
    /\ writer' = 0
    /\ UNCHANGED <<secrets, saltFile, saltsUsed, clean,
                   NotCred>>

(***************************************************************************)
(* Specification: one instance at a time uses config_dir                   *)
(***************************************************************************)
\* config_dir at the start: empty, or as an earlier run of the store on
\* some machine left it under salt 1
InitDisks ==
    {[secrets |-> Absent, salt |-> NoSalt, used |-> 0]}
      \cup {[secrets |-> f, salt |-> SaltOf(1), used |-> 1] :
              f \in {Absent}
                      \cup {Token(Key(1, id), Plain("dict", d)) :
                               id \in Idents, d \in Dicts}}

Init ==
    /\ \E dsk \in InitDisks :
          /\ secrets = dsk.secrets
          /\ saltFile = dsk.salt
          /\ saltsUsed = dsk.used
    /\ cache = [i \in Inst |-> PyNone]
    /\ ident \in Idents
    /\ last = [op |-> "init", i |-> 1, name |-> "", value |-> "", raised |-> "",
               how |-> "", reread |-> FALSE, saved |-> FALSE, log |-> <<>>]
    /\ ret = NoRet
    /\ lastSet = NothingSet
    /\ clean = TRUE
    /\ cleared = {}
    /\ writer = 0
    /\ stats = Unused
    /\ collector = Unused
    /\ health = Unused
    /\ loop = Unused
    /\ LaterUnused

Active == {1}

\* the write faults that make a difference to a call: a refused .salt write
\* only while .salt is missing or short, a refused secrets.enc write only
\* for the calls that can reach _save
Faults(saves) ==
    {wf \in WriteFaults :
        /\ wf = "salt" => ~(saltFile.exists /\ saltFile.len >= SaltLen)
        /\ wf = "secrets" => saves}

StoreOp(i) ==
    \/ NewStore(i)
    \/ \E n \in Names, wf \in Faults(FALSE) : Get(i, n, wf)
    \/ \E n \in Names, v \in Values, wf \in Faults(TRUE) : Set(i, n, v, wf)
    \/ \E n \in Names, wf \in Faults(TRUE) : Delete(i, n, wf)
    \/ \E wf \in Faults(FALSE) : GetAll(i, wf)
    \/ ClearCache(i)

Env ==
    \/ \E n \in Names, x \in Values \cup {None} : MutateRet(n, x)
    \/ \E f \in ExtContents : ExtSecrets(f)
    \/ \E f \in {NoSalt} \cup {ShortSalt(l) : l \in ShortLens} : ExtSalt(f)
    \/ \E id \in Idents : Restart(id)

Next == (\E i \in Active : StoreOp(i)) \/ Env

Spec == Init /\ [][Next]_vars

(***************************************************************************)
(* Specification: a store on a config_dir that starts empty and that       *)
(* nothing but the store touches                                           *)
(***************************************************************************)
InitFresh ==
    /\ Init
    /\ secrets = Absent
    /\ saltFile = NoSalt

NextFresh == \E i \in Active : StoreOp(i)

SpecFresh == InitFresh /\ [][NextFresh]_vars

(***************************************************************************)
(* Specification: two instances on one config_dir that starts empty, their *)
(* calls interleaved in any order, nothing else touching the files         *)
(***************************************************************************)
\* instance i writes the values of TwoValues[i]
TwoValues == <<{"sk-1"}, {"sk-2"}>>

TwoOp(i) ==
    \/ \E n \in Names : Get(i, n, "none")
    \/ \E n \in Names, v \in TwoValues[i], wf \in Faults(TRUE) : Set(i, n, v, wf)
    \/ \E n \in Names, wf \in Faults(TRUE) : Delete(i, n, wf)

NextTwo == \E i \in Inst : TwoOp(i)

SpecTwo == InitFresh /\ [][NextTwo]_vars

(***************************************************************************)
(* What the files hold, read off the files alone                           *)
(***************************************************************************)
\* the key a process with identity id derives from the present .salt; no
\* token is made under salt 0
CurrentKey(id) ==
    IF saltFile.exists /\ saltFile.len >= SaltLen
    THEN Key(saltFile.id, id) ELSE Key(0, id)

\* secrets.enc is a token of the key of identity id
Readable(id) == secrets.k = "token" /\ secrets.key = CurrentKey(id)

\* secrets.enc decrypts, for identity id, to a JSON object
HoldsMap(id) == Readable(id) /\ secrets.p.k = "dict"

\* the map secrets.enc decrypts to; the empty map when there is none
DiskMap(id) == IF HoldsMap(id) THEN secrets.p.d ELSE EmptyDict

IsRead(c) == c.op \in {"get", "get_all"}
IsWrite(c) == c.op \in {"set", "delete"}

(***************************************************************************)
(* C1: when the file write inside set(n, v) or delete(n) fails, the cache  *)
(* after the call is the map the store held before the call, so get(n)     *)
(* returns what it returned before.                                        *)
(* Fails: set and delete change the cache object before _save runs.        *)
(***************************************************************************)
C1_FailedWriteKeepsCache ==
    [][(IsWrite(last') /\ last'.raised = "OSError")
         => /\ cache'[last'.i] = View(last'.i)
            /\ Lookup(cache'[last'.i].d, last'.name)
                 = Lookup(View(last'.i).d, last'.name)]_vars

(***************************************************************************)
(* C2: as long as every write has succeeded and nothing else has touched   *)
(* the files, a cache that is not None equals what secrets.enc decrypts to *)
(* (the empty map when the file is absent or cannot be read).              *)
(***************************************************************************)
C2_CacheMirrorsDisk ==
    clean =>
      \A i \in Inst :
         cache[i].k # "None" => cache[i] = PyDict(DiskMap(ident))

C2_Witness ==
    /\ clean
    /\ last.op = "delete" /\ last.raised = ""
    /\ cache[1].k = "dict" /\ Cardinality(DOMAIN cache[1].d) = 1
    /\ HoldsMap(ident)

(***************************************************************************)
(* C3: after a successful set(n, v) with no later set or delete of n,      *)
(* get(n) returns v: from the cache, after clear_cache(), and from a new   *)
(* instance under the same salt and identity.                              *)
(***************************************************************************)
C3_RoundTrip ==
    \A n \in Names :
       lastSet[n] # None =>
          /\ \A i \in Active : View(i).k = "dict"
                                 /\ Lookup(View(i).d, n) = lastSet[n]
          /\ Lookup(DiskMap(ident), n) = lastSet[n]
          /\ (last.op = "get" /\ last.name = n)
                => (last.raised = "" /\ ret = StrRet(lastSet[n]))

C3_Witness ==
    /\ last.op = "get" /\ last.how = "decrypted"
    /\ lastSet[last.name] # None
    /\ ret.k = "str" /\ ret.s = lastSet[last.name]

(***************************************************************************)
(* C4: when secrets.enc holds bytes that do not decrypt to a JSON map, a   *)
(* store with no cached map answers every get with absent and get_all with *)
(* the empty map, and neither raises.                                      *)
(* Fails: a token of the current key that wraps the JSON array [] loads    *)
(* as a list, and get raises AttributeError on it.                         *)
(***************************************************************************)
C4_CorruptReadsEmpty ==
    [][(/\ IsRead(last')
        /\ cache[last'.i].k = "None"
        /\ secrets.k # "absent"
        /\ ~HoldsMap(ident))
         => /\ last'.raised = ""
            /\ ret' = IF last'.op = "get" THEN NoRet ELSE CopyOf(EmptyDict)]_vars

(***************************************************************************)
(* C5: get and get_all never write, truncate or remove secrets.enc; a load *)
(* that fails leaves the file as it was.                                   *)
(***************************************************************************)
C5_ReadsLeaveSecrets ==
    [][IsRead(last') => secrets' = secrets]_vars

C5_Witness ==
    /\ IsRead(last) /\ last.how = "failed"
    /\ secrets.k # "absent"

(***************************************************************************)
(* C6: when secrets.enc was written under another salt or identity than    *)
(* the one the store now derives its key from, get returns absent for      *)
(* every name, get_all is empty, and no call raises.                       *)
(***************************************************************************)
C6_OtherKeyReadsEmpty ==
    [][(/\ IsRead(last')
        /\ cache[last'.i].k = "None"
        /\ secrets.k = "token"
        /\ secrets.key # CurrentKey(ident))
         => /\ last'.raised = ""
            /\ ret' = IF last'.op = "get" THEN NoRet ELSE CopyOf(EmptyDict)]_vars

C6_Witness ==
    /\ last.op = "get" /\ last.how = "failed" /\ last.raised = ""
    /\ secrets.k = "token" /\ secrets.p.k = "dict"
    /\ last.name \in DOMAIN secrets.p.d
    /\ secrets.key # CurrentKey(ident)
    /\ ret = NoRet

(***************************************************************************)
(* C7 as first stated: delete(n) for a name that is not in the store does  *)
(* not raise and changes nothing: the map the store serves, secrets.enc    *)
(* and .salt are the same after the call as before.                        *)
(* Fails on .salt: a delete that has to load an existing secrets.enc while *)
(* .salt is missing or short writes a fresh salt.                          *)
(***************************************************************************)
NotStored(i, n) == View(i).k = "list" \/ n \notin DOMAIN View(i).d

C7_DeleteAbsentChangesNothing ==
    [][\A i \in Inst :
          (last'.op = "delete" /\ last'.i = i /\ NotStored(i, last'.name))
            => /\ last'.raised = ""
               /\ View(i)' = View(i)
               /\ secrets' = secrets
               /\ saltFile' = saltFile]_vars

\* the load of the call derives a key while .salt is missing or short
LoadMakesSalt(i) ==
    /\ cache[i].k = "None"
    /\ secrets.k # "absent"
    /\ ~(saltFile.exists /\ saltFile.len >= SaltLen)

(***************************************************************************)
(* C7, amended: delete(n) for a name that is not in the store does not     *)
(* raise, performs no _save and leaves the map the store serves and        *)
(* secrets.enc unchanged; .salt is unchanged too unless the call has to    *)
(* load an existing secrets.enc while .salt is missing or shorter than 16  *)
(* bytes, and then the only change is the fresh salt written by that load. *)
(* On a loaded cache (so also when the call is repeated) nothing changes.  *)
(***************************************************************************)
C7_DeleteAbsentNoSave ==
    [][\A i \in Inst :
          (last'.op = "delete" /\ last'.i = i /\ NotStored(i, last'.name))
            => /\ last'.raised = "" /\ ~last'.saved
               /\ View(i)' = View(i)
               /\ secrets' = secrets
               /\ ~LoadMakesSalt(i) => saltFile' = saltFile
               /\ LoadMakesSalt(i)
                    => saltFile' \in {saltFile, SaltOf(saltsUsed + 1)}
               /\ cache[i].k # "None" => cache' = cache]_vars

C7_Witness ==
    /\ last.op = "delete" /\ last.raised = "" /\ ~last.saved
    /\ last.how = "failed"
    /\ secrets.k # "absent" /\ ~HoldsMap(ident)
    /\ cache[1] = PyDict(EmptyDict)

(***************************************************************************)
(* C8: a set(n, v) or delete(n) that saved changes only the entry of n and *)
(* persists the whole map: every other name m reads as before the call,    *)
(* from the cache and from secrets.enc, and n reads v (absent after a      *)
(* delete) from both.                                                      *)
(***************************************************************************)
C8_WriteChangesOnlyItsEntry ==
    [][\A i \in Inst :
          (IsWrite(last') /\ last'.i = i /\ last'.saved)
            => /\ cache'[i].k = "dict" /\ HoldsMap(ident)'
               /\ \A m \in Names \ {last'.name} :
                     /\ Lookup(cache'[i].d, m) = Lookup(View(i).d, m)
                     /\ Lookup(DiskMap(ident)', m) = Lookup(View(i).d, m)
               /\ LET x == IF last'.op = "set" THEN last'.value ELSE None
                  IN /\ Lookup(cache'[i].d, last'.name) = x
                     /\ Lookup(DiskMap(ident)', last'.name) = x]_vars

C8_Witness ==
    /\ last.op = "set" /\ last.saved
    /\ cache[1].k = "dict" /\ DOMAIN cache[1].d = Names
    /\ DiskMap(ident) = cache[1].d

(***************************************************************************)
(* C9: get_all returns a copy: when the caller adds, changes or removes    *)
(* entries of the returned map, the caches and the files stay as they are, *)
(* so later reads return what they would have returned anyway.             *)
(***************************************************************************)
C9_GetAllReturnsCopy ==
    [][last'.op = "mutate"
         => /\ cache' = cache
            /\ secrets' = secrets /\ saltFile' = saltFile
            /\ \A i \in Active : View(i)' = View(i)]_vars

C9_Witness ==
    /\ last.op = "mutate"
    /\ ret.k = "dict"
    /\ cache[1].k = "dict" /\ cache[1].d # EmptyDict
    /\ ret.d # cache[1].d

(***************************************************************************)
(* C10: the first get/get_all/set/delete after clear_cache() reads         *)
(* secrets.enc again: its result is that of the file as it is now          *)
(* (replaced, removed or corrupted since the last load), not of the map    *)
(* cached before.  (A file that decrypts to a JSON array is the case of    *)
(* C4 and is left out here.)                                               *)
(***************************************************************************)
C10_ClearCacheRereads ==
    [][\A i \in Inst :
          (/\ last'.reread /\ last'.i = i
           /\ ~(Readable(ident) /\ secrets.p.k = "list"))
            => /\ last'.how # "cached"
               /\ last'.op = "get"
                    => /\ last'.raised = ""
                       /\ ret' = StrRet(Lookup(DiskMap(ident), last'.name))
               /\ last'.op = "get_all" => ret' = CopyOf(DiskMap(ident))
               /\ (last'.op = "set" /\ last'.saved)
                    => cache'[i].d
                         = StoreItem(DiskMap(ident), last'.name, last'.value)
               /\ (last'.op = "delete" /\ last'.raised = "")
                    => cache'[i].d = DelItem(DiskMap(ident), last'.name)]_vars

C10_Witness ==
    /\ ~clean
    /\ last.reread /\ last.op = "get" /\ last.how = "decrypted"
    /\ ret.k = "str"

(***************************************************************************)
(* C11  On a config_dir that starts empty, no constructor, get, get_all,   *)
(* delete or clear_cache call creates secrets.enc or .salt (a set does);   *)
(* a set that ran to its end leaves both files in place, .salt with its    *)
(* 16 bytes; and once both files are there they stay, whatever is called   *)
(* next, a delete of the last entry included.                              *)
(***************************************************************************)
BothFiles ==
    /\ secrets.k \notin {"absent", "garbage"}
    /\ saltFile.exists /\ saltFile.len >= SaltLen

C11_FilesMadeByFirstSet ==
    [][/\ last'.op \in {"init", "get", "get_all", "delete", "clear_cache"}
          => /\ secrets.k = "absent" => secrets'.k = "absent"
             /\ ~saltFile.exists => ~saltFile'.exists
       /\ (last'.op = "set" /\ last'.saved) => BothFiles'
       /\ BothFiles => BothFiles']_vars

(***************************************************************************)
(* C12  No call on the store rewrites a .salt of at least 16 bytes: the    *)
(* file and the number of salts generated are the same after the call, and *)
(* a secrets.enc that the current salt and identity could decrypt before   *)
(* the call can still be decrypted after it.                               *)
(***************************************************************************)
StoreCalls == {"init", "get", "set", "delete", "get_all", "clear_cache"}

C13_LastWriterWins ==
    (writer # 0 /\ cache[writer].k # "None")
      => cache[writer] = PyDict(DiskMap(ident))

(***************************************************************************)
(* C14  No log record and no exception message of a call on the store      *)
(* carries a secret value, and a call hands values to its caller only as   *)
(* the return value of get (one value) or get_all (the map).               *)
(***************************************************************************)
C14_NoSecretInLogs ==
    /\ \A k \in DOMAIN last.log :
          /\ last.log[k].msg \notin Values
          /\ \A a \in DOMAIN last.log[k].args :
                last.log[k].args[a] \notin Values
    /\ ret.k = "str" => last.op = "get"
    /\ ret.k = "dict" => last.op \in {"get_all", "mutate"}

\* a get decrypted the file, logged the count, found a value and logged
\* the name
C14_Witness ==
    /\ last.op = "get" /\ last.how = "decrypted"
    /\ ret.k = "str" /\ ret.s \in Values
    /\ Len(last.log) = 2 /\ last.log[1].level = "debug"
    /\ last.log[2].args = <<last.name>>

(***************************************************************************)
(* The agent loop (src/src/pocketclaw/agents/loop.py) handling one         *)
(* message, and the error classifier (src/src/pocketclaw/agents/errors.py) *)
(*                                                                         *)
(* Text is a sequence of pieces, concatenation is \o.  An exception is its *)
(* class (module, name, base class, errno), its message and the set of the *)
(* keywords that occur in the lower-cased message.  Arrows, dashes and     *)
(* bullets of the texts are written in ASCII, a backquote as '.            *)
(***************************************************************************)
Channels == {"cli", "telegram"}
ChatIds == {"chat1", "chat2"}
\* chunks the router yields before it ends or raises
MaxChunks == 2

Keywords == {"not logged in", "login", "authentication", "api key",
             "connection", "timeout", "rate limit"}

Exc(module, name, base, errno, text, has) ==
    [module |-> module, name |-> name, base |-> base, errno |-> errno,
     text |-> text, has |-> has]

NoExc == Exc("", "", "", 0, "", {})

Excs ==
    {Exc("anthropic._exceptions", "AuthenticationError", "Exception", 0,
         "Invalid API key", {"api key"}),
     Exc("anthropic._exceptions", "RateLimitError", "Exception", 0,
         "rate limit exceeded", {"rate limit"}),
     Exc("anthropic._exceptions", "APIConnectionError", "Exception", 0,
         "Connection error.", {"connection"}),
     Exc("anthropic._exceptions", "APIStatusError", "Exception", 0,
         "overloaded", {}),
     Exc("openai", "AuthenticationError", "Exception", 0,
         "Incorrect API key provided", {"api key"}),
     Exc("openai", "RateLimitError", "Exception", 0,
         "Too many requests", {}),
     Exc("openai", "APIConnectionError", "Exception", 0,
         "Connection error.", {"connection"}),
     Exc("httpx", "ConnectError", "Exception", 0,
         "All connection attempts failed", {"connection"}),
     Exc("builtins", "ConnectionRefusedError", "ConnectionError", 111,
         "[Errno 111] Connect call failed", {}),
     Exc("builtins", "OSError", "OSError", 113,
         "[Errno 113] No route to host", {}),
     Exc("builtins", "TimeoutError", "OSError", 0,
         "timeout", {"timeout"}),
     Exc("builtins", "RuntimeError", "Exception", 0,
         "Not logged in. Please run /login", {"not logged in", "login"}),
     Exc("builtins", "ValueError", "Exception", 0,
         "something unexpected", {})}

\* part in whole, for the module and class names of Excs
Contains(whole, part) ==
    whole = part \/ <<whole, part>> \in {<<"anthropic._exceptions", "anthropic">>}

\* "m" in type(exc).__module__, "n" in type(exc).__name__
InModule(exc, m) == Contains(exc.module, m)
IsClass(exc, n) == Contains(exc.name, n)

\* "w" in str(e).lower()
Said(exc, w) == w \in exc.has

\* format_backend_error
FormatBackendError(exc) ==
    IF InModule(exc, "anthropic") /\ IsClass(exc, "AuthenticationError")
    THEN <<"**Anthropic API key is invalid or missing.**\n\nGo to **Settings -> API Keys** and check your Anthropic key. It should start with 'sk-ant-'.">>
    ELSE IF InModule(exc, "anthropic") /\ IsClass(exc, "RateLimitError")
    THEN <<"**Anthropic rate limit reached.** Please wait a moment and try again.\n\nIf this keeps happening, check your plan limits at [console.anthropic.com](https://console.anthropic.com).">>
    ELSE IF InModule(exc, "anthropic") /\ IsClass(exc, "APIConnectionError")
    THEN <<"**Can't connect to the Anthropic API.**\n\nCheck your internet connection and try again. If you're behind a proxy, make sure 'HTTPS_PROXY' is set.">>
    ELSE IF InModule(exc, "anthropic") /\ (IsClass(exc, "APIStatusError") \/ IsClass(exc, "APIError"))
    THEN <<"**Anthropic API returned an error:** ", exc.text, "\n\nThis is usually temporary. Try again in a few seconds.">>
    ELSE IF InModule(exc, "openai") /\ IsClass(exc, "AuthenticationError")
    THEN <<"**OpenAI API key is invalid or missing.**\n\nGo to **Settings -> API Keys** and check your OpenAI key. It should start with 'sk-'.">>
    ELSE IF InModule(exc, "openai") /\ IsClass(exc, "RateLimitError")
    THEN <<"**OpenAI rate limit reached.** Please wait a moment and try again.\n\nIf this keeps happening, check your usage at [platform.openai.com](https://platform.openai.com).">>
    ELSE IF InModule(exc, "openai") /\ IsClass(exc, "APIConnectionError")
    THEN <<"**Can't connect to the OpenAI API.**\n\nCheck your internet connection and try again.">>
    ELSE IF InModule(exc, "httpx") \/ InModule(exc, "httpcore")
    THEN <<"**Network error - can't reach the LLM API.**\n\nCheck your internet connection. If you're using Ollama, make sure it's running ('ollama serve').">>
    ELSE IF exc.base = "ConnectionError"
    THEN <<"**Connection failed.**\n\nThe LLM backend is unreachable. Check your network or verify the backend is running.">>
    ELSE IF exc.base = "OSError" /\ exc.errno \in {111, 113, 101}
    THEN <<"**Can't connect to the LLM backend** - connection refused.\n\nIf you're using Ollama, start it with 'ollama serve'.\nOtherwise, check that the configured API endpoint is correct.">>
    ELSE <<"**Something went wrong:** ", exc.text, "\n\nIf this keeps happening, try switching the agent backend in **Settings -> General**, or check the logs for details.">>

\* the except branch of _process_message: the text is chosen by keywords
\* of str(e).lower()
UserMessage(exc) ==
    IF Said(exc, "not logged in") \/ Said(exc, "login")
    THEN <<"You're not logged in.\n\nRun /login to connect your LLM provider (OpenAI, Claude, etc).">>
    ELSE IF Said(exc, "authentication") \/ Said(exc, "api key")
    THEN <<"Authentication failed.\n\nCheck your API key in Settings and try again.">>
    ELSE IF Said(exc, "connection") \/ Said(exc, "timeout")
    THEN <<"Cannot reach the LLM backend.\n\nCheck:\n* Internet connection\n* API key\n* Backend service running">>
    ELSE IF Said(exc, "rate limit")
    THEN <<"Rate limit reached.\n\nPlease wait a moment and try again.">>
    ELSE <<"Something went wrong while processing your request.\n\nPlease try again.">>

\* chunk.get("metadata") or {}: a map from some of the keys to strings
NoMeta == [x \in {} |-> ""]
Meta(key, value) == [x \in {key} |-> value]
\* dict.get(key, default)
MetaGet(meta, key, default) == IF key \in DOMAIN meta THEN meta[key] ELSE default

Chunk(type, content, metadata) ==
    [type |-> type, content |-> content, metadata |-> metadata]

\* what a backend yields; every content is shorter than the 100 and 200
\* characters the events cut it to
Chunks ==
    {Chunk("message", <<"Hi">>, NoMeta),
     Chunk("code", <<"print(1)">>, Meta("language", "python")),
     Chunk("code", <<"ls">>, NoMeta),
     Chunk("output", <<"1">>, NoMeta),
     Chunk("tool_use", <<>>, Meta("name", "shell")),
     Chunk("tool_use", <<>>, NoMeta),
     Chunk("tool_result", <<"ok">>, Meta("tool", "browser")),
     Chunk("error", <<"backend error">>, NoMeta),
     Chunk("done", <<>>, NoMeta)}

\* OutboundMessage and SystemEvent
Outbound(msg, content, chunk, end) ==
    [channel |-> msg.channel, chat_id |-> msg.chat_id, content |-> content,
     is_stream_chunk |-> chunk, is_stream_end |-> end]
Event(type, name, result, status) ==
    [event_type |-> type, name |-> name, result |-> result, status |-> status]

\* metadata.get("name") or metadata.get("tool", "unknown")
ToolName(meta) ==
    IF MetaGet(meta, "name", "") # "" THEN meta["name"]
    ELSE MetaGet(meta, "tool", "unknown")

\* the body of the async for in _process_message: one chunk
HandleChunk(l, c) ==
    LET language == MetaGet(c.metadata, "language", "code")
        code_block == <<"\n'''", language, "\n">> \o c.content \o <<"\n'''\n">>
        output_block == <<"\n'''output\n">> \o c.content \o <<"\n'''\n">>
        say(text) == Append(l.out, Outbound(l.msg, text, TRUE, FALSE))
        emit(e) == Append(l.events, e)
    IN CASE c.type = "message" ->
              [l EXCEPT !.full = @ \o c.content, !.out = say(c.content)]
         [] c.type = "code" ->
              [l EXCEPT !.events = emit(Event("tool_start", <<"run_", language>>,
                                              <<>>, "")),
                        !.full = @ \o code_block, !.out = say(code_block)]
         [] c.type = "output" ->
              [l EXCEPT !.events = emit(Event("tool_result", <<"code_execution">>,
                                              c.content, "success")),
                        !.full = @ \o output_block, !.out = say(output_block)]
         [] c.type = "tool_use" ->
              [l EXCEPT !.events = emit(Event("tool_start",
                                              <<ToolName(c.metadata)>>, <<>>, ""))]
         [] c.type = "tool_result" ->
              [l EXCEPT !.events = emit(Event("tool_result",
                                              <<ToolName(c.metadata)>>,
                                              c.content, "success"))]
         [] c.type = "error" ->
              [l EXCEPT !.events = emit(Event("tool_result", <<"agent">>,
                                              c.content, "error")),
                        !.out = say(c.content)]
         [] OTHER -> l

NoMsg == [channel |-> "", chat_id |-> "", content |-> <<>>]

\* pc: idle, router (inside the async for), done.  exc: the exception the
\* router raised; late: the exception storing the response raised; raised:
\* the exception that left _process_message
LoopIdle ==
    [pc |-> "idle", msg |-> NoMsg, chunks |-> 0, full |-> <<>>, out |-> <<>>,
     events |-> <<>>, memory |-> <<>>, exc |-> NoExc, late |-> NoExc,
     raised |-> NoExc]

\* _process_message up to router.run: the user message is stored and the
\* thinking event published
ProcessStart(ch, chat) ==
    /\ loop.pc = "idle"
    /\ LET m == [channel |-> ch, chat_id |-> chat, content |-> <<"Hello">>]
       IN loop' = [loop EXCEPT
                     !.pc = "router",
                     !.msg = m,
                     !.memory = Append(@, [role |-> "user", content |-> m.content]),
                     !.events = Append(@, Event("thinking", <<ch, ":", chat>>,
                                                <<>>, ""))]
    /\ UNCHANGED NotLoop

\* the router yields a chunk
RouterYields(c) ==
    /\ loop.pc = "router"
    /\ loop.chunks < MaxChunks
    /\ loop' = [HandleChunk(loop, c) EXCEPT !.chunks = @ + 1]
    /\ UNCHANGED NotLoop

\* the router is exhausted: stream end, the response is stored
RouterEnds ==
    /\ loop.pc = "router"
    /\ loop' = [loop EXCEPT
                  !.pc = "done",
                  !.out = Append(@, Outbound(loop.msg, <<>>, FALSE, TRUE)),
                  !.memory = IF loop.full # <<>>
                             THEN Append(@, [role |-> "assistant",
                                             content |-> loop.full])
                             ELSE @]
    /\ UNCHANGED NotLoop

\* router.run raises: the except branch sends its text and the stream end
RouterRaises(e) ==
    /\ loop.pc = "router"
    /\ loop' = [loop EXCEPT
                  !.pc = "done",
                  !.exc = e,
                  !.out = @ \o <<Outbound(loop.msg, UserMessage(e), FALSE, FALSE),
                                 Outbound(loop.msg, <<>>, FALSE, TRUE)>>]
    /\ UNCHANGED NotLoop

\* the router is exhausted and the stream end published; then storing the
\* response raises, and the except branch sends its text and a stream end
StoreResponseRaises(e) ==
    /\ loop.pc = "router"
    /\ loop.full # <<>>
    /\ loop' = [loop EXCEPT
                  !.pc = "done",
                  !.late = e,
                  !.out = @ \o <<Outbound(loop.msg, <<>>, FALSE, TRUE),
                                 Outbound(loop.msg, UserMessage(e), FALSE, FALSE),
                                 Outbound(loop.msg, <<>>, FALSE, TRUE)>>]
    /\ UNCHANGED NotLoop

InitLoop ==
    /\ CredUnused
    /\ stats = Unused /\ collector = Unused /\ health = Unused
    /\ LaterUnused
    /\ loop = LoopIdle

NextLoop ==
    \/ \E ch \in Channels, chat \in ChatIds : ProcessStart(ch, chat)
    \/ \E c \in Chunks : RouterYields(c)
    \/ RouterEnds
    \/ \E e \in Excs : RouterRaises(e)
    \/ \E e \in Excs : StoreResponseRaises(e)

SpecLoop == InitLoop /\ [][NextLoop]_vars

(***************************************************************************)
(* C15  When the router raises, _process_message does not raise and has    *)
(* published, to the channel and chat of the message, an outbound message  *)
(* whose text is the one format_backend_error gives for the exception.     *)
(***************************************************************************)
C15_FriendlyBackendError ==
    (loop.pc = "done" /\ loop.exc # NoExc)
      => /\ loop.raised = NoExc
         /\ \E k \in DOMAIN loop.out :
               loop.out[k] = Outbound(loop.msg, FormatBackendError(loop.exc),
                                      FALSE, FALSE)

(***************************************************************************)
(* The statistics manager (src/src/pocketclaw/stats/manager.py)            *)
(***************************************************************************)
\* largest max_history, number of start_call invocations, last millisecond
\* of the clock
MaxHistory == 2
MaxCalls == 3
MaxClock == 1

SessionKeys == {"cli:chat1", "cli:chat2"}

\* f"{session_key}_{int(time.time() * 1000)}"
CallId(session_key, ms) == <<session_key, ms>>

\* variant: the deque has no maxlen
DequeAppendUnbounded(q, x, maxlen) == Append(q, x)

\* deque(maxlen=maxlen).append(x): the oldest item goes when the deque is
\* full; with maxlen 0 nothing is kept
DequeAppend(q, x, maxlen) ==
    IF maxlen = 0 THEN <<>>
    ELSE IF Len(q) < maxlen THEN Append(q, x)
    ELSE Append(Tail(q), x)

\* lst[-limit:] for limit >= 0: -0 is 0, so the slice starts at the front
SliceLast(lst, limit) ==
    LET start == IF limit = 0 THEN 0
                 ELSE IF Len(lst) - limit < 0 THEN 0 ELSE Len(lst) - limit
    IN SubSeq(lst, start + 1, Len(lst))

\* reversed(lst)
Reversed(lst) == [k \in 1..Len(lst) |-> lst[Len(lst) + 1 - k]]

\* AgentCallStats.to_dict
ToDict(c) == [c EXCEPT !.k = "dict"]

\* n (the how-manieth end_call that recorded) stands for the timestamp
AgentCallStats(n, data, now, input_tokens, output_tokens, success) ==
    [k |-> "AgentCallStats", n |-> n, session_key |-> data.session_key,
     response_time_ms |-> now - data.start_time,
     input_tokens |-> input_tokens, output_tokens |-> output_tokens,
     total_tokens |-> input_tokens + output_tokens, success |-> success]

NoCalls == [x \in {} |-> 0]

\* what end_call is called with
Outcomes ==
    {[input_tokens |-> 5, output_tokens |-> 1, success |-> TRUE],
     [input_tokens |-> 0, output_tokens |-> 0, success |-> FALSE]}

\* StatsManager.__init__, with the last call (op, its argument, its return
\* value) and the history of the calls made: started counts the start_calls,
\* ids are the call_ids they returned, completed the records end_call made
\* since the last clear_history
StatsManager(max_history) ==
    [max_history |-> max_history, call_history |-> <<>>,
     active_calls |-> NoCalls, now |-> 0,
     op |-> "init", limit |-> 0, ret |-> <<>>,
     started |-> 0, ids |-> {}, completed |-> <<>>, recorded |-> 0]

\* StatsManager.start_call; an entry under the same call_id is replaced
StartCall(session_key) ==
    /\ stats.started < MaxCalls
    /\ LET call_id == CallId(session_key, stats.now)
           data == [session_key |-> session_key, start_time |-> stats.now]
           active == stats.active_calls
       IN stats' = [stats EXCEPT
                      !.active_calls =
                          [x \in DOMAIN active \cup {call_id} |->
                              IF x = call_id THEN data ELSE active[x]],
                      !.started = @ + 1,
                      !.ids = @ \cup {call_id},
                      !.op = "start_call", !.limit = 0, !.ret = <<call_id>>]
    /\ UNCHANGED NotStats

\* StatsManager.end_call: None (no return value here) for an unknown call_id
EndCall(call_id, input_tokens, output_tokens, success) ==
    /\ LET active == stats.active_calls
       IN IF call_id \notin DOMAIN active
          THEN stats' = [stats EXCEPT !.op = "end_call", !.limit = 0,
                                      !.ret = <<>>]
          ELSE LET c == AgentCallStats(stats.recorded + 1, active[call_id],
                                       stats.now, input_tokens, output_tokens,
                                       success)
               IN stats' = [stats EXCEPT
                              !.active_calls =
                                  [x \in DOMAIN active \ {call_id} |-> active[x]],
                              !.call_history =
                                  DequeAppend(@, c, stats.max_history),
                              !.completed = Append(@, c),
                              !.recorded = @ + 1,
                              !.op = "end_call", !.limit = 0, !.ret = <<c>>]
    /\ UNCHANGED NotStats

\* StatsManager.get_recent_calls
GetRecentCalls(limit) ==
    /\ LET recent == SliceLast(stats.call_history, limit)
       IN stats' = [stats EXCEPT
                      !.op = "get_recent_calls", !.limit = limit,
                      !.ret = [k \in DOMAIN recent |-> ToDict(Reversed(recent)[k])]]
    /\ UNCHANGED NotStats

\* StatsManager.clear_history
ClearHistory ==
    /\ stats' = [stats EXCEPT !.call_history = <<>>, !.active_calls = NoCalls,
                              !.completed = <<>>,
                              !.op = "clear_history", !.limit = 0, !.ret = <<>>]
    /\ UNCHANGED NotStats

\* StatsManager.get_call_count
GetCallCount(sm) == Len(sm.call_history)

\* a millisecond passes
Tick ==
    /\ stats.now < MaxClock
    /\ stats' = [stats EXCEPT !.now = @ + 1]
    /\ UNCHANGED NotStats

InitStats ==
    /\ CredUnused
    /\ collector = Unused /\ health = Unused /\ loop = Unused
    /\ LaterUnused
    /\ \E max_history \in 0..MaxHistory : stats = StatsManager(max_history)

NextStats ==
    \/ \E sk \in SessionKeys : StartCall(sk)
    \/ \E sk \in SessionKeys, ms \in 0..MaxClock, o \in Outcomes :
          EndCall(CallId(sk, ms), o.input_tokens, o.output_tokens, o.success)
    \/ \E limit \in 0..(MaxHistory + 1) : GetRecentCalls(limit)
    \/ ClearHistory
    \/ Tick

SpecStats == InitStats /\ [][NextStats]_vars

\* the last min(n, Len(seq)) items of seq, in their order
LastN(seq, n) ==
    LET m == IF n < Len(seq) THEN n ELSE Len(seq)
    IN SubSeq(seq, Len(seq) - m + 1, Len(seq))

(***************************************************************************)
(* C16  On a StatsManager(max_history = M), get_call_count() never exceeds *)
(* M, and the history is the last min(M, number of completed calls)        *)
(* completed calls, in the order they completed.                           *)
(***************************************************************************)
C16_HistoryBounded ==
    /\ GetCallCount(stats) <= stats.max_history
    /\ stats.call_history = LastN(stats.completed, stats.max_history)

\* more calls have completed than the history holds
C16_Witness ==
    /\ stats.op = "end_call" /\ stats.ret # <<>>
    /\ stats.max_history >= 1
    /\ Len(stats.completed) > stats.max_history
    /\ GetCallCount(stats) = stats.max_history

(***************************************************************************)
(* C17  get_recent_calls(limit), limit >= 0, returns at most limit         *)
(* records: the last min(limit, history size) completed calls, newest      *)
(* first.                                                                  *)
(***************************************************************************)
C17_RecentAtMostLimit ==
    stats.op = "get_recent_calls"
      => /\ Len(stats.ret) <= stats.limit
         /\ stats.ret = [k \in 1..Len(LastN(stats.call_history, stats.limit)) |->
                           ToDict(Reversed(LastN(stats.call_history,
                                                 stats.limit))[k])]

(***************************************************************************)
(* C18  No two start_call invocations return the same call_id.             *)
(***************************************************************************)
C18_CallIdsUnique == Cardinality(stats.ids) = stats.started

(***************************************************************************)
(* The analytics collector (src/src/pocketclaw/analytics/collector.py)     *)
(*                                                                         *)
(* handle_event is a coroutine without an await: once the event loop runs  *)
(* it, it runs to its end.  Coroutines scheduled together (asyncio.gather, *)
(* the bus) are pending and run one after the other, in any order.         *)
(***************************************************************************)
\* events handed to handle_event, ticks of time.monotonic()
MaxEvents == 3
MaxMonotonic == 1

MAX_RECENT_CALLS == 500

ToolNames == {"shell", "browser"}
EventTypes == {"tool_start", "tool_result", "thinking", "error", "other"}
\* days the clock passes through, and datetime.now(tz=UTC).strftime("%Y-%m-%d")
\* on the day the collector is in
MaxDays == 2
Dates == <<"2026-11-06", "2026-11-07", "2026-11-08", "2026-11-09">>
Today(c) == Dates[c.day]

\* SystemEvent as handle_event reads it: data.get("name", "unknown"),
\* data.get("status", "success")
SystemEvents ==
    {[event_type |-> "tool_start", name |-> n, status |-> "success"] :
        n \in ToolNames \cup {"unknown"}}
      \cup {[event_type |-> "tool_result", name |-> n, status |-> st] :
               n \in ToolNames, st \in {"success", "error"}}
      \cup {[event_type |-> t, name |-> "unknown", status |-> "success"] :
               t \in {"thinking", "error", "other"}}

ToolStats == [call_count |-> 0, error_count |-> 0, total_duration_ms |-> 0]
DailyActivity == [messages |-> 0, tool_calls |-> 0, errors |-> 0]
ToolCallRecord(name, duration_ms, status) ==
    [name |-> name, duration_ms |-> duration_ms, status |-> status]

\* duration_ms of a tool_result without a tool_start
NoDuration == -1

NoneHandled == [t \in EventTypes |-> 0]

\* AnalyticsCollector.__init__, with the coroutines not yet run (pending)
\* and the history: passed counts the events handed to handle_event,
\* handled[t] the events of type t it has run for, together is the largest
\* number of coroutines that were pending at once, day the day of the clock
AnalyticsCollector ==
    [total_messages |-> 0, total_tool_calls |-> 0, total_errors |-> 0,
     tool_stats |-> [x \in {} |-> ToolStats],
     daily |-> [x \in {} |-> DailyActivity],
     recent_calls |-> <<>>, inflight |-> [x \in {} |-> 0],
     event_count |-> 0, monotonic |-> 0,
     pending |-> <<>>, passed |-> 0, handled |-> NoneHandled, together |-> 0,
     day |-> 1]

\* _ensure_tool, _ensure_day: the map with an entry under the key
EnsureTool(tool_stats, name) ==
    IF name \in DOMAIN tool_stats THEN tool_stats
    ELSE [x \in DOMAIN tool_stats \cup {name} |->
             IF x = name THEN ToolStats ELSE tool_stats[x]]
\* variant: a day not yet seen starts the map anew
EnsureDayAnew(daily, date_str) ==
    IF date_str \in DOMAIN daily THEN daily
    ELSE [x \in {date_str} |-> DailyActivity]

EnsureDay(daily, date_str) ==
    IF date_str \in DOMAIN daily THEN daily
    ELSE [x \in DOMAIN daily \cup {date_str} |->
             IF x = date_str THEN DailyActivity ELSE daily[x]]

\* variant: the event counter is left as it is
CountEventNot(c) == c

\* self._event_count += 1
CountEvent(c) == [c EXCEPT !.event_count = @ + 1]

\* the body of handle_event
HandleEventBody(c, event) ==
    LET name == event.name
        tools == EnsureTool(c.tool_stats, name)
        today == Today(c)
        days == EnsureDay(c.daily, today)
        started == name \in DOMAIN c.inflight
        duration_ms == IF started THEN (c.monotonic - c.inflight[name]) * 1000
                       ELSE NoDuration
    IN CountEvent(
         CASE event.event_type = "tool_start" ->
                [c EXCEPT
                   !.inflight = [x \in DOMAIN @ \cup {name} |->
                                    IF x = name THEN c.monotonic ELSE @[x]],
                   !.total_tool_calls = @ + 1,
                   !.tool_stats = [tools EXCEPT ![name].call_count = @ + 1],
                   !.daily = [days EXCEPT ![today].tool_calls = @ + 1]]
           [] event.event_type = "tool_result" ->
                [c EXCEPT
                   !.inflight = [x \in DOMAIN @ \ {name} |-> @[x]],
                   !.recent_calls =
                       DequeAppend(@, ToolCallRecord(name, duration_ms,
                                                     event.status),
                                   MAX_RECENT_CALLS),
                   !.tool_stats =
                       IF event.status = "error"
                       THEN [tools EXCEPT ![name].error_count = @ + 1]
                       ELSE IF started
                       THEN [tools EXCEPT
                               ![name].total_duration_ms = @ + duration_ms]
                       ELSE tools,
                   !.total_errors = IF event.status = "error" THEN @ + 1 ELSE @,
                   !.daily = IF event.status = "error"
                             THEN [days EXCEPT ![today].errors = @ + 1]
                             ELSE @]
           [] event.event_type = "thinking" ->
                [c EXCEPT !.total_messages = @ + 1,
                          !.daily = [days EXCEPT ![today].messages = @ + 1]]
           [] event.event_type = "error" ->
                [c EXCEPT !.total_errors = @ + 1,
                          !.daily = [days EXCEPT ![today].errors = @ + 1]]
           [] OTHER -> c)

\* handle_event(event) is called: the coroutine is scheduled
PassEvent(event) ==
    /\ collector.passed < MaxEvents
    /\ collector' = [collector EXCEPT
                       !.pending = Append(@, event),
                       !.passed = @ + 1,
                       !.together = IF @ > Len(collector.pending) THEN @
                                    ELSE Len(collector.pending) + 1]
    /\ UNCHANGED NotCollector

\* the event loop runs one of the pending coroutines, to its end
HandleEvent(k) ==
    /\ k \in DOMAIN collector.pending
    /\ LET event == collector.pending[k]
           rest == [j \in 1..(Len(collector.pending) - 1) |->
                      IF j < k THEN collector.pending[j]
                      ELSE collector.pending[j + 1]]
       IN collector' = [HandleEventBody(collector, event) EXCEPT
                          !.pending = rest,
                          !.handled[event.event_type] = @ + 1]
    /\ UNCHANGED NotCollector

\* AnalyticsCollector.reset; the coroutines still pending run after it
Reset ==
    /\ collector.event_count > 0
    /\ collector' = [AnalyticsCollector EXCEPT
                       !.monotonic = collector.monotonic,
                       !.day = collector.day,
                       !.pending = collector.pending,
                       !.passed = Len(collector.pending),
                       !.together = Len(collector.pending)]
    /\ UNCHANGED NotCollector

\* time.monotonic() advances
Elapse ==
    /\ collector.monotonic < MaxMonotonic
    /\ collector' = [collector EXCEPT !.monotonic = @ + 1]
    /\ UNCHANGED NotCollector

\* the UTC date changes
Midnight ==
    /\ collector.day < MaxDays
    /\ collector' = [collector EXCEPT !.day = @ + 1]
    /\ UNCHANGED NotCollector

InitCollector ==
    /\ CredUnused
    /\ stats = Unused /\ health = Unused /\ loop = Unused
    /\ LaterUnused
    /\ collector = AnalyticsCollector

NextCollector ==
    \/ \E event \in SystemEvents : PassEvent(event)
    \/ \E k \in 1..MaxEvents : HandleEvent(k)
    \/ Reset
    \/ Elapse
    \/ Midnight

SpecCollector == InitCollector /\ [][NextCollector]_vars

(***************************************************************************)
(* C19  Every event passed to handle_event is counted exactly once, in     *)
(* whatever order the scheduled coroutines run: total_tool_calls is the    *)
(* number of tool_start events handled, the event counter the number of    *)
(* events handled, and with no coroutine pending the event counter is the  *)
(* number of events passed.                                                *)
(***************************************************************************)
C19_EveryEventCountedOnce ==
    /\ collector.total_tool_calls = collector.handled["tool_start"]
    /\ collector.event_count =
          collector.handled["tool_start"] + collector.handled["tool_result"]
            + collector.handled["thinking"] + collector.handled["error"]
            + collector.handled["other"]
    /\ collector.event_count + Len(collector.pending) = collector.passed

\* MaxEvents tool_start events for more than one tool were pending together
\* and have all run
C19_Witness ==
    /\ collector.passed = MaxEvents
    /\ collector.together = MaxEvents
    /\ collector.pending = <<>>
    /\ collector.total_tool_calls = MaxEvents
    /\ collector.event_count = MaxEvents
    /\ Cardinality(DOMAIN collector.tool_stats) > 1

(***************************************************************************)
(* The health report (src/src/pocketclaw/health.py)                        *)
(***************************************************************************)
ChannelNames == {"telegram", "discord", "slack", "whatsapp"}

\* what the memory subsystem does when asked: answers, or raises in
\* get_memory_manager() or in get_session_count()
MemoryBehaviours == {"ok", "manager_raises", "count_raises"}

\* the try/except around the memory manager
MemoryInfo(memory, session_count) ==
    IF memory = "ok"
    THEN [status |-> "ok", sessions |-> session_count]
    ELSE [status |-> "error", sessions |-> 0]

\* "connected" if channel_status_fn(ch) else "disconnected"
ChannelsInfo(running) ==
    [ch \in ChannelNames |-> IF running[ch] THEN "connected" ELSE "disconnected"]

\* variant: unhealthy only when both the agent and the memory are down
OverallBothDown(agent_ok, memory_info, channels_info) ==
    IF ~agent_ok /\ memory_info.status = "error" THEN "unhealthy"
    ELSE IF \E ch \in DOMAIN channels_info : channels_info[ch] = "disconnected"
    THEN "degraded"
    ELSE "healthy"

\* the overall status
Overall(agent_ok, memory_info, channels_info) ==
    IF ~agent_ok \/ memory_info.status = "error" THEN "unhealthy"
    ELSE IF \E ch \in DOMAIN channels_info : channels_info[ch] = "disconnected"
    THEN "degraded"
    ELSE "healthy"

\* collect_health: the body and the HTTP status code
CollectHealth(agent_running, memory, session_count, running) ==
    LET agent_ok == agent_running
        agent_info == [status |-> IF agent_ok THEN "ok" ELSE "down"]
        memory_info == MemoryInfo(memory, session_count)
        channels_info == ChannelsInfo(running)
        overall == Overall(agent_ok, memory_info, channels_info)
    IN [body |-> [status |-> overall,
                  subsystems |-> [agent_backend |-> agent_info,
                                  memory |-> memory_info,
                                  channels |-> channels_info]],
        status_code |-> IF overall = "unhealthy" THEN 503 ELSE 200]

NoReport == [body |-> [status |-> ""], status_code |-> 0]

\* GET /api/health: collect_health is applied to the subsystems as they are
HealthRequest ==
    /\ health.pc = "request"
    /\ health' = [health EXCEPT
                    !.pc = "response",
                    !.report = CollectHealth(health.agent_running, health.memory,
                                             health.session_count,
                                             health.running)]
    /\ UNCHANGED NotHealth

InitHealth ==
    /\ CredUnused
    /\ stats = Unused /\ collector = Unused /\ loop = Unused
    /\ LaterUnused
    /\ \E a \in BOOLEAN, m \in MemoryBehaviours, n \in {0, 1},
          r \in [ChannelNames -> BOOLEAN] :
          health = [pc |-> "request", agent_running |-> a, memory |-> m,
                    session_count |-> n, running |-> r, report |-> NoReport]

NextHealth == HealthRequest

SpecHealth == InitHealth /\ [][NextHealth]_vars

(***************************************************************************)
(* C20  collect_health reports "unhealthy" and 503 exactly when the agent  *)
(* loop is not running or the memory subsystem raised; otherwise           *)
(* "degraded" and 200 when one of the four channels is disconnected,       *)
(* "healthy" and 200 when all four are connected.                          *)
(***************************************************************************)
C20_HealthStatus ==
    health.pc = "response" =>
      LET down == ~health.agent_running \/ health.memory # "ok"
          allUp == \A ch \in ChannelNames : health.running[ch]
          status == health.report.body.status
          code == health.report.status_code
      IN /\ down => (status = "unhealthy" /\ code = 503)
         /\ (~down /\ ~allUp) => (status = "degraded" /\ code = 200)
         /\ (~down /\ allUp) => (status = "healthy" /\ code = 200)

\* the memory subsystem raised while the agent runs and every channel is up
C20_Witness ==
    /\ health.pc = "response"
    /\ health.agent_running /\ health.memory = "count_raises"
    /\ \A ch \in ChannelNames : health.running[ch]
    /\ health.report.status_code = 503

(***************************************************************************)
(* The PII scanner (src/src/pocketpaw/security/pii.py)                      *)
(*                                                                         *)
(* A text is a sequence of characters.  Each character of the scanned text *)
(* carries its position (at >= 1) and each character of a replacement      *)
(* carries at = 0, so that a sanitized text shows which of its characters  *)
(* come from the original.  Indices of matches are Python's: 0-based, end  *)
(* exclusive.                                                              *)
(***************************************************************************)
MaxSegs == 5

PIIActions == {"log", "mask", "hash"}

Char(c, at) == [c |-> c, at |-> at]

\* a str literal, as the characters of a replacement
Lit(chars) == [i \in 1..Len(chars) |-> Char(chars[i], 0)]

\* a str the scanner is given
Text(chars) == [i \in 1..Len(chars) |-> Char(chars[i], i)]

\* the pieces the scanned texts are made of: a keyword, a blank, an SSN,
\* a date
Segments ==
    { <<"d", "o", "b">>,
      <<" ">>,
      <<"1", "2", "3", "-", "4", "5", "-", "6", "7", "8", "9">>,
      <<"1", "/", "2", "/", "1", "9", "9", "0">> }

RECURSIVE TextsOf(_)
TextsOf(n) ==
    IF n = 0 THEN {<<>>}
    ELSE LET shorter == TextsOf(n - 1)
         IN shorter \cup {t \o seg : t \in shorter, seg \in Segments}

Texts == TextsOf(MaxSegs)

\* \d and \w of the re module, on ASCII text
IsDigit(c) == c \in {"0", "1", "2", "3", "4", "5", "6", "7", "8", "9"}
IsWordChar(c) ==
    \/ IsDigit(c)
    \/ c \in {"a", "b", "c", "d", "e", "f", "g", "h", "i", "j", "k", "l", "m",
              "n", "o", "p", "q", "r", "s", "t", "u", "v", "w", "x", "y", "z",
              "_"}

\* text[i], "" outside the text
At(text, i) == IF i >= 0 /\ i < Len(text) THEN text[i + 1].c ELSE ""

\* \b at index i: exactly one of text[i-1], text[i] is a word character
Boundary(text, i) == IsWordChar(At(text, i - 1)) # IsWordChar(At(text, i))

\* sanitized[:k] and sanitized[k:], which clamp k to the length
SliceTo(seq, k) == SubSeq(seq, 1, IF k > Len(seq) THEN Len(seq) ELSE k)
SliceFrom(seq, k) == SubSeq(seq, (IF k > Len(seq) THEN Len(seq) ELSE k) + 1, Len(seq))

NoMatchAt == -1

\* \b\d{3}-\d{2}-\d{4}\b at index i: the end of the match
SSNEnd(text, i) ==
    IF /\ Boundary(text, i)
       /\ \A k \in {0, 1, 2, 4, 5, 7, 8, 9, 10} : IsDigit(At(text, i + k))
       /\ At(text, i + 3) = "-" /\ At(text, i + 6) = "-"
       /\ Boundary(text, i + 11)
    THEN i + 11
    ELSE NoMatchAt

\* \d{1,2}[/-]\d{1,2}[/-]\d{2,4}: the lengths of the three runs of digits, in
\* the order a greedy match tries them
DateShapes ==
    << <<2, 2, 4>>, <<2, 2, 3>>, <<2, 2, 2>>, <<2, 1, 4>>, <<2, 1, 3>>, <<2, 1, 2>>,
       <<1, 2, 4>>, <<1, 2, 3>>, <<1, 2, 2>>, <<1, 1, 4>>, <<1, 1, 3>>, <<1, 1, 2>> >>

DigitsAt(text, i, n) == \A k \in 0..(n - 1) : IsDigit(At(text, i + k))

DateShapeEnd(text, j, shape) ==
    LET s1 == j + shape[1]
        s2 == s1 + 1 + shape[2]
        e == s2 + 1 + shape[3]
    IN IF /\ DigitsAt(text, j, shape[1])
          /\ At(text, s1) \in {"/", "-"}
          /\ DigitsAt(text, s1 + 1, shape[2])
          /\ At(text, s2) \in {"/", "-"}
          /\ DigitsAt(text, s2 + 1, shape[3])
          /\ Boundary(text, e)
       THEN e
       ELSE NoMatchAt

\* \b\d{1,2}[/-]\d{1,2}[/-]\d{2,4}\b at index j
DateEnd(text, j) ==
    LET ok == {n \in DOMAIN DateShapes : DateShapeEnd(text, j, DateShapes[n]) # NoMatchAt}
    IN IF Boundary(text, j) /\ ok # {}
       THEN DateShapeEnd(text, j, DateShapes[CHOOSE n \in ok : \A o \in ok : n <= o])
       ELSE NoMatchAt

\* born|dob|birthday|date of birth
DOBKeywords ==
    { <<"b", "o", "r", "n">>, <<"d", "o", "b">>,
      <<"b", "i", "r", "t", "h", "d", "a", "y">>,
      <<"d", "a", "t", "e", " ", "o", "f", " ", "b", "i", "r", "t", "h">> }

KeywordAt(text, i, kw) == \A k \in 1..Len(kw) : At(text, i + k - 1) = kw[k]

\* \b(?:born|dob|birthday|date of birth)\b.{0,20}\b<date>\b at index i; the
\* gap .{0,20} is greedy
DOBEnd(text, i) ==
    LET kws == {kw \in DOBKeywords :
                  KeywordAt(text, i, kw) /\ Boundary(text, i + Len(kw))}
        starts == {i + Len(kw) + g : kw \in kws, g \in 0..20}
        ok == {j \in starts : j <= Len(text) /\ DateEnd(text, j) # NoMatchAt}
    IN IF Boundary(text, i) /\ ok # {}
       THEN DateEnd(text, CHOOSE j \in ok : \A o \in ok : j >= o)
       ELSE NoMatchAt

\* the patterns of _COMPILED_PII that can match a text of Texts, in the order
\* of the list (a text of Texts has no "@", ".", "+" or "(", and no ten
\* digits in a row, so the e-mail, phone, card and IP patterns find nothing)
PIIPatterns == <<"ssn", "date_of_birth">>

MatchEnd(pii_type, text, i) ==
    IF pii_type = "ssn" THEN SSNEnd(text, i) ELSE DOBEnd(text, i)

PIIMatch(pii_type, start, end, replacement, action) ==
    [pii_type |-> pii_type, start |-> start, end |-> end,
     replacement |-> replacement, action |-> action]

PIIScanner(default_action, type_actions) ==
    [default_action |-> default_action, type_actions |-> type_actions]

\* _get_action
GetAction(scanner, pii_type) ==
    IF pii_type \in DOMAIN scanner.type_actions
    THEN scanner.type_actions[pii_type]
    ELSE scanner.default_action

\* pii_type.value.upper()
Upper(pii_type) ==
    IF pii_type = "ssn" THEN <<"S", "S", "N">>
    ELSE <<"D", "A", "T", "E", "_", "O", "F", "_", "B", "I", "R", "T", "H">>

\* hashlib.sha256(match_text.encode()).hexdigest()[:12]: twelve hex digits
Sha256Hex12(match_text) == [i \in 1..12 |-> "f"]

\* _apply_action
ApplyAction(match_text, pii_type, action) ==
    IF action = "log" THEN match_text
    ELSE IF action = "hash"
    THEN Lit(<<"[", "P", "I", "I", "-">> \o Upper(pii_type) \o <<":">>
             \o Sha256Hex12(match_text) \o <<"]">>)
    ELSE Lit(<<"[", "R", "E", "D", "A", "C", "T", "E", "D", "-">>
             \o Upper(pii_type) \o <<"]">>)

\* pattern.finditer(text): the matches from index i on, left to right, each
\* search starting where the previous match ended
RECURSIVE FindIter(_, _, _, _)
FindIter(scanner, pii_type, text, i) ==
    IF i >= Len(text) THEN <<>>
    ELSE LET e == MatchEnd(pii_type, text, i)
             action == GetAction(scanner, pii_type)
         IN IF e = NoMatchAt
            THEN FindIter(scanner, pii_type, text, i + 1)
            ELSE <<PIIMatch(pii_type, i, e,
                            ApplyAction(SubSeq(text, i + 1, e), pii_type, action),
                            action)>>
                 \o FindIter(scanner, pii_type, text, e)

\* the loop over _COMPILED_PII
RECURSIVE AllMatches(_, _, _)
AllMatches(scanner, text, p) ==
    IF p > Len(PIIPatterns) THEN <<>>
    ELSE FindIter(scanner, PIIPatterns[p], text, 0)
         \o AllMatches(scanner, text, p + 1)

\* sorted(matches, key=lambda m: m.start, reverse=True): stable
RECURSIVE InsertByStart(_, _)
InsertByStart(sorted, m) ==
    IF sorted = <<>> THEN <<m>>
    ELSE LET lastOne == sorted[Len(sorted)]
         IN IF lastOne.start >= m.start
            THEN Append(sorted, m)
            ELSE Append(InsertByStart(SubSeq(sorted, 1, Len(sorted) - 1), m), lastOne)

RECURSIVE SortedByStartReverse(_)
SortedByStartReverse(matches) ==
    IF matches = <<>> THEN <<>>
    ELSE InsertByStart(SortedByStartReverse(SubSeq(matches, 1, Len(matches) - 1)),
                       matches[Len(matches)])

\* the deduplication loop, replacing from the last start to the first
RECURSIVE Dedupe(_, _, _, _)
Dedupe(sorted_matches, seen_ranges, deduped, sanitized) ==
    IF sorted_matches = <<>> THEN [deduped |-> deduped, sanitized |-> sanitized]
    ELSE LET match == Head(sorted_matches)
             key == <<match.start, match.end>>
         IN IF key \in seen_ranges
            THEN Dedupe(Tail(sorted_matches), seen_ranges, deduped, sanitized)
            ELSE Dedupe(Tail(sorted_matches), seen_ranges \cup {key},
                        Append(deduped, match),
                        IF match.action # "log"
                        THEN SliceTo(sanitized, match.start) \o match.replacement
                               \o SliceFrom(sanitized, match.end)
                        ELSE sanitized)

PIIScanResult(original_text, sanitized_text, matches) ==
    [original_text |-> original_text, sanitized_text |-> sanitized_text,
     matches |-> matches]

\* PIIScanner.scan
Scan(scanner, text) ==
    IF text = <<>> THEN PIIScanResult(text, text, <<>>)
    ELSE LET matches == AllMatches(scanner, text, 1)
             done == Dedupe(SortedByStartReverse(matches), {}, <<>>, text)
         IN PIIScanResult(text, done.sanitized, Reversed(done.deduped))

NoScanResult == PIIScanResult(<<>>, <<>>, <<>>)

\* the configurations of a scanner: one action for every type, or the SSN
\* type only logged
TypeActions == {<<>>, [t \in {"ssn"} |-> "log"]}

ScanCall ==
    /\ pii.pc = "ready"
    /\ pii' = [pii EXCEPT !.pc = "done",
                          !.result = Scan(pii.scanner, pii.text)]
    /\ UNCHANGED NotPii

InitPii ==
    /\ EarlyUnused
    /\ reflect = Unused /\ whatsapp = Unused /\ interp = Unused
    /\ lifecycle = Unused /\ tunnel = Unused
    /\ \E a \in PIIActions, ta \in TypeActions, chars \in Texts :
          pii = [pc |-> "ready", scanner |-> PIIScanner(a, ta),
                 text |-> Text(chars), result |-> NoScanResult]

NextPii == ScanCall

SpecPii == InitPii /\ [][NextPii]_vars

\* the indices of the text inside the range of a reported match that is
\* not only logged
Covered(result) ==
    {i \in 0..(Len(result.original_text) - 1) :
        \E k \in DOMAIN result.matches :
            /\ result.matches[k].action # "log"
            /\ result.matches[k].start <= i /\ i < result.matches[k].end}

IsOriginal(ch) == ch.at # 0

(***************************************************************************)
(* C21  scan replaces every reported match: the characters of the original *)
(* text that sanitized_text keeps are exactly those outside the ranges of  *)
(* the reported MASK/HASH matches, in their order, also when matches       *)
(* overlap or nest; when every reported match is LOG, sanitized_text       *)
(* equals the original text.                                               *)
(***************************************************************************)
C21_ScanReplacesMatches ==
    pii.pc = "done" =>
      LET result == pii.result
          covered == Covered(result)
          Outside(ch) == (ch.at - 1) \notin covered
      IN /\ SelectSeq(result.sanitized_text, IsOriginal)
              = SelectSeq(result.original_text, Outside)
         /\ (covered = {}) => result.sanitized_text = result.original_text

(***************************************************************************)
(* Self-reflection (src/src/pocketclaw/reflection.py)                      *)
(*                                                                         *)
(* One call of reflect_and_correct.  The coroutine is cut at its awaits:   *)
(* an action is the reply of llm_backend.chat (a string or an exception)   *)
(* and the code that runs until the next await or the return.              *)
(***************************************************************************)
MaxRetries == 2

\* str.strip() and str.upper(), on the characters the replies are made of
RECURSIVE StripLeft(_)
StripLeft(str) ==
    IF str # <<>> /\ Head(str) = " " THEN StripLeft(Tail(str)) ELSE str

RECURSIVE StripRight(_)
StripRight(str) ==
    IF str # <<>> /\ str[Len(str)] = " "
    THEN StripRight(SubSeq(str, 1, Len(str) - 1))
    ELSE str

Strip(str) == StripRight(StripLeft(str))

UpperChar(c) ==
    IF c = "p" THEN "P" ELSE IF c = "a" THEN "A" ELSE IF c = "s" THEN "S"
    ELSE IF c = "f" THEN "F" ELSE IF c = "i" THEN "I" ELSE IF c = "l" THEN "L"
    ELSE c

StrUpper(str) == [i \in DOMAIN str |-> UpperChar(str[i])]

StartsWith(str, prefix) ==
    Len(str) >= Len(prefix) /\ SubSeq(str, 1, Len(prefix)) = prefix

\* _is_reflection_pass
IsReflectionPass(result) ==
    LET result_upper == Strip(StrUpper(result))
    IN /\ StartsWith(result_upper, <<"P", "A", "S", "S">>)
       /\ ~StartsWith(result_upper, <<"F", "A", "I", "L">>)

\* what the reflection prompt can be answered with
ReflectionReplies ==
    { <<"P", "A", "S", "S">>,
      <<" ", "p", "a", "s", "s", ":">>,
      <<"F", "A", "I", "L", ":", " ", "x">>,
      <<>> }

\* a response: which text it is (0 the agent's output, n the reply to the
\* n-th correction request) and its length
Response(id, len) == [id |-> id, len |-> len]

ResponseLens == {40, 100, 300}
\* difflib ratio of a correction against the current response, in percent
Similarities == {50, 88, 95}

\* what the correction prompt can be answered with
CorrectionReplies == [len : ResponseLens, similarity : Similarities]

\* the ratio 2*M/(a+b) cannot exceed 2*min(a,b)/(a+b)
Feasible(current, reply) ==
    reply.similarity * (current.len + reply.len)
      <= 200 * (IF current.len < reply.len THEN current.len ELSE reply.len)

\* _is_improvement
IsImprovement(original_len, corrected_len, similarity) ==
    IF 2 * corrected_len < original_len THEN FALSE
    ELSE IF 100 * corrected_len > 95 * original_len /\ similarity > 85 THEN TRUE
    ELSE LET length_diff == IF corrected_len >= original_len
                            THEN corrected_len - original_len
                            ELSE original_len - corrected_len
         IN length_diff < 100 /\ similarity > 90

Metrics(passed, total, attempted, accepted) ==
    [reflection_passed |-> passed, total_attempts |-> total,
     corrections_attempted |-> attempted, corrections_accepted |-> accepted]

NoReturn == [response |-> Response(0, 0), corrected |-> FALSE]

\* the locals of a call that has not started
ReflectCall(max_retries, agent_output) ==
    [pc |-> "start", max_retries |-> max_retries, agent_output |-> agent_output,
     current_response |-> agent_output, corrected |-> FALSE,
     metrics |-> Metrics(FALSE, 0, 0, 0), attempt |-> 0,
     ret |-> NoReturn,
     reflection_calls |-> 0, correction_calls |-> 0, failed |-> FALSE]

\* return current_response, corrected, metrics
Return(r) ==
    [r EXCEPT !.pc = "returned",
              !.ret = [response |-> r.current_response, corrected |-> r.corrected]]

\* the head of the for loop, up to the await of the reflection call
Iterate(r) ==
    IF r.attempt <= r.max_retries
    THEN [r EXCEPT !.pc = "reflect",
                   !.metrics.total_attempts = @ + 1,
                   !.reflection_calls = @ + 1]
    ELSE Return(r)

\* variant: a failed reflection always asks for a correction
AfterReflectionAlwaysCorrects(r, result) ==
    IF IsReflectionPass(result)
    THEN Return([r EXCEPT !.metrics.reflection_passed = TRUE])
    ELSE [r EXCEPT !.pc = "correct",
                   !.metrics.corrections_attempted = @ + 1,
                   !.correction_calls = @ + 1]

\* after the reflection call returned a string
AfterReflection(r, result) ==
    IF IsReflectionPass(result)
    THEN Return([r EXCEPT !.metrics.reflection_passed = TRUE])
    ELSE IF r.attempt < r.max_retries
    THEN [r EXCEPT !.pc = "correct",
                   !.metrics.corrections_attempted = @ + 1,
                   !.correction_calls = @ + 1]
    ELSE Iterate([r EXCEPT !.attempt = @ + 1])

\* reflect_and_correct is called
ReflectStart ==
    /\ reflect.pc = "start"
    /\ reflect' = Iterate(reflect)
    /\ UNCHANGED NotReflect

\* the reflection call returns a string
ReflectionReply(result) ==
    /\ reflect.pc = "reflect"
    /\ reflect' = AfterReflection(reflect, Strip(result))
    /\ UNCHANGED NotReflect

\* the reflection call raises
ReflectionRaises ==
    /\ reflect.pc = "reflect"
    /\ reflect' = Return([reflect EXCEPT !.failed = TRUE])
    /\ UNCHANGED NotReflect

\* the correction call returns a string
CorrectionReply(reply) ==
    /\ reflect.pc = "correct"
    /\ Feasible(reflect.current_response, reply)
    /\ LET corrected_response == Response(reflect.correction_calls, reply.len)
           accepted == IsImprovement(reflect.current_response.len, reply.len,
                                     reply.similarity)
           r == IF accepted
                THEN [reflect EXCEPT !.current_response = corrected_response,
                                     !.corrected = TRUE,
                                     !.metrics.corrections_accepted = @ + 1]
                ELSE reflect
       IN reflect' = Iterate([r EXCEPT !.attempt = @ + 1])
    /\ UNCHANGED NotReflect

\* the correction call raises
CorrectionRaises ==
    /\ reflect.pc = "correct"
    /\ reflect' = Iterate([reflect EXCEPT !.attempt = @ + 1, !.failed = TRUE])
    /\ UNCHANGED NotReflect

InitReflect ==
    /\ EarlyUnused
    /\ pii = Unused /\ whatsapp = Unused /\ interp = Unused
    /\ lifecycle = Unused /\ tunnel = Unused
    /\ \E k \in 0..MaxRetries, len \in ResponseLens :
          reflect = ReflectCall(k, Response(0, len))

NextReflect ==
    \/ ReflectStart
    \/ \E result \in ReflectionReplies : ReflectionReply(result)
    \/ ReflectionRaises
    \/ \E reply \in CorrectionReplies : CorrectionReply(reply)
    \/ CorrectionRaises

SpecReflect == InitReflect /\ [][NextReflect]_vars

\* every chat call is answered or raises
SpecReflectLive == SpecReflect /\ WF_vars(NextReflect)

(***************************************************************************)
(* C22  reflect_and_correct never raises: when an LLM call failed (the     *)
(* reflection call or the correction call, on any attempt), the response   *)
(* it returns is the original agent_output.                                *)
(***************************************************************************)
C22_FailureReturnsOriginal ==
    (reflect.pc = "returned" /\ reflect.failed)
      => reflect.ret.response = reflect.agent_output

(***************************************************************************)
(* C23  For every max_retries = k >= 0 and every sequence of LLM replies,  *)
(* reflect_and_correct makes at most k+1 reflection calls and at most k    *)
(* correction calls and then returns; total_attempts <= k+1 and            *)
(* corrections_accepted <= corrections_attempted <= k; with k = 0 no       *)
(* correction is requested and the response is returned unchanged.         *)
(***************************************************************************)
ReflectBounds ==
    LET k == reflect.max_retries
        m == reflect.metrics
    IN /\ reflect.reflection_calls <= k + 1
       /\ reflect.correction_calls <= k
       /\ m.total_attempts <= k + 1
       /\ m.corrections_accepted <= m.corrections_attempted
       /\ m.corrections_attempted <= k
       /\ (k = 0 /\ reflect.pc = "returned")
            => /\ reflect.correction_calls = 0
               /\ reflect.ret.response = reflect.agent_output
               /\ ~reflect.ret.corrected

C23_BoundedRetries == []ReflectBounds /\ <>(reflect.pc = "returned")

\* a call that used every reflection and every correction it was allowed
C23_Witness ==
    /\ reflect.pc = "returned"
    /\ reflect.max_retries = MaxRetries
    /\ reflect.reflection_calls = MaxRetries + 1
    /\ reflect.correction_calls = MaxRetries
    /\ reflect.metrics.corrections_accepted = MaxRetries

(***************************************************************************)
(* The WhatsApp adapter                                                    *)
(* (src/src/pocketpaw/bus/adapters/whatsapp_adapter.py)                    *)
(*                                                                         *)
(* A str is the sequence of its characters.  The text messages the adapter *)
(* sends are the calls of _send_text, in order.                            *)
(***************************************************************************)
MaxMessages == 4

WaChats == {"491", "492"}
\* contents of outbound messages: a letter, a blank
WaContents == {<<"a">>, <<" ">>}
EmptyStr == <<>>

\* an OutboundMessage as AgentLoop publishes them: a stream chunk, a stream
\* end (no content), or a normal message
WaMessage(chat_id, content, is_stream_chunk, is_stream_end) ==
    [chat_id |-> chat_id, content |-> content,
     is_stream_chunk |-> is_stream_chunk, is_stream_end |-> is_stream_end]

WaMessages ==
    {WaMessage(c, t, TRUE, FALSE) : c \in WaChats, t \in WaContents}
      \cup {WaMessage(c, EmptyStr, FALSE, TRUE) : c \in WaChats}
      \cup {WaMessage(c, t, FALSE, FALSE) : c \in WaChats, t \in WaContents}

NoBuffers == <<>>

\* self._buffers.get(chat_id, "")
BufferOf(buffers, chat_id) ==
    IF chat_id \in DOMAIN buffers THEN buffers[chat_id] ELSE EmptyStr

\* variant: the flushed buffer stays in the dict
BuffersKept(buffers, chat_id) == buffers

\* the dict after self._buffers.pop(chat_id, "")
BuffersPopped(buffers, chat_id) ==
    [c \in DOMAIN buffers \ {chat_id} |-> buffers[c]]

\* the dict after self._buffers[chat_id] += content
BuffersAdded(buffers, chat_id, content) ==
    [c \in DOMAIN buffers \cup {chat_id} |->
        IF c = chat_id THEN BufferOf(buffers, chat_id) \o content ELSE buffers[c]]

\* a call _send_text(to, text)
TextSent(to, text) == [to |-> to, text |-> text]

\* send(message) on an adapter with buffers and the texts sent so far
SendResult(http, buffers, sent, message) ==
    IF ~http THEN [buffers |-> buffers, sent |-> sent]
    ELSE IF message.is_stream_chunk
    THEN [buffers |-> BuffersAdded(buffers, message.chat_id, message.content),
          sent |-> sent]
    ELSE IF message.is_stream_end
    THEN LET text == BufferOf(buffers, message.chat_id)
         IN [buffers |-> BuffersPopped(buffers, message.chat_id),
             sent |-> IF Strip(text) # EmptyStr
                      THEN Append(sent, TextSent(message.chat_id, text))
                      ELSE sent]
    ELSE [buffers |-> buffers,
          sent |-> IF Strip(message.content) # EmptyStr
                   THEN Append(sent, TextSent(message.chat_id, message.content))
                   ELSE sent]

NoWaMessage == WaMessage("", EmptyStr, FALSE, FALSE)

\* WhatsAppAdapter.__init__; handled, last and since are history: the number
\* of send calls, the message of the last one, and for each chat the chunk
\* contents received by the started adapter since the chat's last stream end
WhatsAppAdapter ==
    [started |-> FALSE, http |-> FALSE, buffers |-> NoBuffers, sent |-> <<>>,
     handled |-> 0, last |-> NoWaMessage,
     since |-> [c \in WaChats |-> EmptyStr]]

\* _on_start: without access_token or phone_number_id no HTTP client is made
OnStart(configured) ==
    /\ ~whatsapp.started
    /\ whatsapp' = [whatsapp EXCEPT !.started = TRUE, !.http = configured]
    /\ UNCHANGED NotWhatsapp

\* send(message)
Send(message) ==
    /\ whatsapp.handled < MaxMessages
    /\ LET res == SendResult(whatsapp.http, whatsapp.buffers, whatsapp.sent, message)
       IN whatsapp' =
            [whatsapp EXCEPT
               !.buffers = res.buffers,
               !.sent = res.sent,
               !.handled = @ + 1,
               !.last = message,
               !.since = IF ~whatsapp.http THEN @
                         ELSE IF message.is_stream_chunk
                         THEN [@ EXCEPT ![message.chat_id] = @ \o message.content]
                         ELSE IF message.is_stream_end
                         THEN [@ EXCEPT ![message.chat_id] = EmptyStr]
                         ELSE @]
    /\ UNCHANGED NotWhatsapp

InitWhatsapp ==
    /\ EarlyUnused
    /\ pii = Unused /\ reflect = Unused /\ interp = Unused
    /\ lifecycle = Unused /\ tunnel = Unused
    /\ whatsapp = WhatsAppAdapter

NextWhatsapp ==
    \/ \E configured \in BOOLEAN : OnStart(configured)
    \/ \E message \in WaMessages : Send(message)

SpecWhatsapp == InitWhatsapp /\ [][NextWhatsapp]_vars

\* what a send call on the started adapter does, by the kind of its message
StreamStep ==
    (whatsapp.http /\ whatsapp'.handled = whatsapp.handled + 1) =>
      LET m == whatsapp'.last
          text == whatsapp.since[m.chat_id]
          others == WaChats \ {m.chat_id}
      IN /\ \A c \in others :
               BufferOf(whatsapp'.buffers, c) = BufferOf(whatsapp.buffers, c)
         /\ m.is_stream_chunk => whatsapp'.sent = whatsapp.sent
         /\ m.is_stream_end =>
              /\ whatsapp'.sent = IF Strip(text) # EmptyStr
                                  THEN Append(whatsapp.sent, TextSent(m.chat_id, text))
                                  ELSE whatsapp.sent
              /\ BufferOf(whatsapp'.buffers, m.chat_id) = EmptyStr

MaxRuns == 3
MaxYields == 2

Runs == 1..MaxRuns

\* variant: acquire never waits
NotLockedEver(value, waiters) == TRUE

\* not self._semaphore.locked()
NotLocked(value, waiters) == value > 0 /\ waiters = <<>>

\* the semaphore after a release
Released(agent) ==
    IF agent.waiters = <<>>
    THEN [agent EXCEPT !.value = @ + 1]
    ELSE [agent EXCEPT !.waiters = Tail(@),
                       !.pc[Head(agent.waiters)] = "woken"]

\* OpenInterpreterAgent.__init__, and per call: pc, the number of chunks
\* yielded, whether the call had to wait; entered lists the calls in the
\* order they entered the section
OpenInterpreterAgent(model_ok) ==
    [model |-> model_ok, stop_flag |-> FALSE, value |-> 1, waiters |-> <<>>,
     pc |-> [c \in Runs |-> "idle"],
     yielded |-> [c \in Runs |-> 0],
     waited |-> [c \in Runs |-> FALSE],
     entered |-> <<>>]

\* the body of the async with is entered: the stop flag is reset, the
\* messages are built and the completion is started in a thread
Entered(agent, c) ==
    [agent EXCEPT !.pc[c] = "inside", !.stop_flag = FALSE,
                  !.entered = Append(@, c)]

\* run() is called and runs up to its first await or yield
RunCalled(c) ==
    /\ interp.pc[c] = "idle"
    /\ interp' =
         IF ~interp.model
         THEN [interp EXCEPT !.pc[c] = "done", !.yielded[c] = 1]
         ELSE IF NotLocked(interp.value, interp.waiters)
         THEN Entered([interp EXCEPT !.value = @ - 1], c)
         ELSE [interp EXCEPT !.pc[c] = "waiting", !.waiters = Append(@, c),
                             !.waited[c] = TRUE]
    /\ UNCHANGED NotInterp

\* a call that was handed the semaphore resumes
RunResumed(c) ==
    /\ interp.pc[c] = "woken"
    /\ interp' = Entered(interp, c)
    /\ UNCHANGED NotInterp

\* a chunk arrives on the queue, or wait_for times out: the call yields
RunYields(c) ==
    /\ interp.pc[c] = "inside"
    /\ interp.yielded[c] < MaxYields
    /\ interp' = [interp EXCEPT !.yielded[c] = @ + 1]
    /\ UNCHANGED NotInterp

\* the end signal arrives and the executor future is awaited, or the
\* consumer closes the generator: the async with is left
RunFinishes(c) ==
    /\ interp.pc[c] = "inside"
    /\ interp' = Released([interp EXCEPT !.pc[c] = "done"])
    /\ UNCHANGED NotInterp

\* an exception inside the try: the error is yielded and the async with left
RunFails(c) ==
    /\ interp.pc[c] = "inside"
    /\ interp' = Released([interp EXCEPT !.pc[c] = "done", !.yielded[c] = @ + 1])
    /\ UNCHANGED NotInterp

\* stop()
StopAgent ==
    /\ ~interp.stop_flag
    /\ interp' = [interp EXCEPT !.stop_flag = TRUE]
    /\ UNCHANGED NotInterp

InitInterp ==
    /\ EarlyUnused
    /\ pii = Unused /\ reflect = Unused /\ whatsapp = Unused
    /\ lifecycle = Unused /\ tunnel = Unused
    /\ \E model_ok \in BOOLEAN : interp = OpenInterpreterAgent(model_ok)

NextInterp ==
    \/ \E c \in Runs : RunCalled(c)
    \/ \E c \in Runs : RunResumed(c)
    \/ \E c \in Runs : RunYields(c)
    \/ \E c \in Runs : RunFinishes(c)
    \/ \E c \in Runs : RunFails(c)
    \/ StopAgent

SpecInterp == InitInterp /\ [][NextInterp]_vars

\* the event loop resumes a woken call, and a run that is inside completes
SpecInterpLive ==
    /\ SpecInterp
    /\ \A c \in Runs : WF_vars(RunResumed(c)) /\ WF_vars(RunFinishes(c))

InsideRuns == {c \in Runs : interp.pc[c] = "inside"}

(***************************************************************************)
(* C25  Under any interleaving of run() calls on one agent at most one     *)
(* call is inside the semaphore-guarded section, and a waiting call enters *)
(* once the runs before it have completed: no call waits forever.          *)
(***************************************************************************)
C25_OneSessionAtATime ==
    /\ [](Cardinality(InsideRuns) <= 1)
    /\ \A c \in Runs : (interp.pc[c] = "waiting") ~> (interp.pc[c] = "inside")

\* all runs have been inside, one after the other, two of them after waiting
C25_Witness ==
    /\ Len(interp.entered) = MaxRuns
    /\ \A c \in Runs : interp.pc[c] = "done"
    /\ interp.yielded[interp.entered[MaxRuns]] = MaxYields
    /\ Cardinality({c \in Runs : interp.waited[c]}) = MaxRuns - 1

(***************************************************************************)
(* The lifecycle registry (src/src/pocketpaw/lifecycle.py)                  *)
(*                                                                         *)
(* _registry is a dict: a sequence of entries in insertion order, one per  *)
(* name.  A callback is known by what calling it does.                     *)
(***************************************************************************)
MaxRegisters == 3

SingletonNames == {"scheduler", "mcp_manager", "tunnel"}

\* what a shutdown callback does: returns, returns a coroutine that
\* completes, raises an Exception, returns a coroutine that raises an
\* Exception, raises a BaseException that is not an Exception
\* (asyncio.CancelledError, KeyboardInterrupt, SystemExit)
CallbackKinds == {"returns", "coroutine", "raises", "coroutine_raises", "raises_base"}

Entry(name, shutdown, reset) == [name |-> name, shutdown |-> shutdown, reset |-> reset]

IndexOf(registry, name) ==
    IF \E k \in DOMAIN registry : registry[k].name = name
    THEN CHOOSE k \in DOMAIN registry : registry[k].name = name
    ELSE 0

\* _registry[name] = (shutdown, reset)
Registered(registry, name, shutdown, reset) ==
    IF IndexOf(registry, name) = 0
    THEN Append(registry, Entry(name, shutdown, reset))
    ELSE [registry EXCEPT ![IndexOf(registry, name)] = Entry(name, shutdown, reset)]

\* variant: every raise of a callback leaves shutdown_all
LeavesOnAnyRaise(kind) == kind \in {"raises", "coroutine_raises", "raises_base"}

\* the raise of the callback is not caught by "except Exception"
Leaves(kind) == kind = "raises_base"

NoInvocations == [n \in SingletonNames |-> 0]

\* the module after import; registers, before and invoked are history: the
\* number of register calls, the registry when shutdown_all was called, and
\* how often that call has invoked each name's shutdown callback
Lifecycle ==
    [registry |-> <<>>, pc |-> "idle", items |-> <<>>, logged |-> <<>>,
     registers |-> 0, before |-> <<>>, invoked |-> NoInvocations]

\* register(name, shutdown=shutdown)
Register(name, shutdown) ==
    /\ lifecycle.pc = "idle"
    /\ lifecycle.registers < MaxRegisters
    /\ lifecycle' = [lifecycle EXCEPT
                       !.registry = Registered(@, name, shutdown, None),
                       !.registers = @ + 1]
    /\ UNCHANGED NotLifecycle

\* shutdown_all() is called: list(_registry.items())
ShutdownAllCalled ==
    /\ lifecycle.pc = "idle"
    /\ lifecycle' = [lifecycle EXCEPT
                       !.pc = "shutting_down",
                       !.items = lifecycle.registry,
                       !.logged = <<>>,
                       !.before = lifecycle.registry,
                       !.invoked = NoInvocations]
    /\ UNCHANGED NotLifecycle

\* one turn of the loop of shutdown_all
ShutdownNext ==
    /\ lifecycle.pc = "shutting_down"
    /\ lifecycle.items # <<>>
    /\ LET item == Head(lifecycle.items)
       IN lifecycle' =
            IF item.shutdown = None
            THEN [lifecycle EXCEPT !.items = Tail(@)]
            ELSE IF Leaves(item.shutdown)
            THEN [lifecycle EXCEPT !.pc = "raised", !.items = <<>>,
                                   !.invoked[item.name] = @ + 1]
            ELSE [lifecycle EXCEPT
                    !.items = Tail(@),
                    !.invoked[item.name] = @ + 1,
                    !.logged = Append(@, <<IF item.shutdown \in {"raises", "coroutine_raises"}
                                           THEN "warning" ELSE "debug", item.name>>)]
    /\ UNCHANGED NotLifecycle

\* the loop of shutdown_all is over
ShutdownAllReturns ==
    /\ lifecycle.pc = "shutting_down"
    /\ lifecycle.items = <<>>
    /\ lifecycle' = [lifecycle EXCEPT !.pc = "returned"]
    /\ UNCHANGED NotLifecycle

\* reset_all()
ResetAll ==
    /\ lifecycle.pc = "idle"
    /\ lifecycle.registry # <<>>
    /\ lifecycle' = [lifecycle EXCEPT !.registry = <<>>]
    /\ UNCHANGED NotLifecycle

InitLifecycle ==
    /\ EarlyUnused
    /\ pii = Unused /\ reflect = Unused /\ whatsapp = Unused
    /\ interp = Unused /\ tunnel = Unused
    /\ lifecycle = Lifecycle

NextLifecycle ==
    \/ \E name \in SingletonNames, shutdown \in CallbackKinds \cup {None} :
          Register(name, shutdown)
    \/ ShutdownAllCalled
    \/ ShutdownNext
    \/ ShutdownAllReturns
    \/ ResetAll

SpecLifecycle == InitLifecycle /\ [][NextLifecycle]_vars

ShutdownAllOver == lifecycle.pc \in {"returned", "raised"}

MaxTunnelCalls == 3

TunnelCalls == 1..MaxTunnelCalls

NoProcess == 0
NoUrl == 0

\* a call: which method, where it is suspended, the process whose wait()
\* or stderr it awaits, the exception it has met, and how it ended
TunnelCall(op, pc, awaits, error, result) ==
    [op |-> op, pc |-> pc, awaits |-> awaits, error |-> error, result |-> result]

NotCalled == TunnelCall("none", "idle", NoProcess, "", "none")

\* the calls are numbered in the order they are made
IsNextCall(t, c) ==
    /\ t.call[c].op = "none"
    /\ \A d \in 1..(c - 1) : t.call[d].op # "none"

Failed(t, c, error) == [t EXCEPT !.call[c].error = error]

\* TunnelManager.__init__, with the history of processes: how many were
\* spawned, which were sent terminate or kill, which have exited
TunnelManager(installed) ==
    [installed |-> installed, process |-> NoProcess, public_url |-> NoUrl,
     spawned |-> 0, signalled |-> {}, exited |-> {},
     call |-> [c \in TunnelCalls |-> NotCalled]]

Done(t, c, result) ==
    [t EXCEPT !.call[c].pc = "done", !.call[c].awaits = NoProcess,
              !.call[c].result = result]

\* the finally of stop
Cleared(t) == [t EXCEPT !.process = NoProcess, !.public_url = NoUrl]

\* where a call goes on when the stop() it awaited has returned
AfterStop(t, c, pc) ==
    IF pc = "stop_wait" THEN Done(t, c, "returned")
    ELSE IF pc = "restart_wait"
    THEN [t EXCEPT !.call[c].pc = "spawning", !.call[c].awaits = NoProcess]
    ELSE Done(t, c, "raised")

\* stop(), up to its await or its return; pc is where the caller waits
StopBegun(t, c, pc) ==
    IF t.process = NoProcess THEN AfterStop(t, c, pc)
    ELSE IF t.process \in t.exited
    THEN AfterStop(Cleared(t), c, pc)
    ELSE [t EXCEPT !.signalled = @ \cup {t.process},
                   !.call[c].pc = pc, !.call[c].awaits = t.process]

\* start() from "if self.process:" to its next await or its return
StartChecked(t, c) ==
    IF t.process # NoProcess
    THEN IF t.public_url # NoUrl
         THEN Done(t, c, "reused")
         ELSE StopBegun(t, c, "restart_wait")
    ELSE [t EXCEPT !.call[c].pc = "spawning"]

\* the head of the loop of _wait_for_url, up to the await of readline
UrlLoop(t, c, deadline) ==
    IF deadline
    THEN StopBegun(Failed(t, c, "TimeoutError"), c, "fail_wait")
    ELSE IF t.process = NoProcess
    THEN StopBegun(Failed(t, c, "AttributeError"), c, "fail_wait")
    ELSE IF t.process \in t.exited
    THEN StopBegun(Failed(t, c, "RuntimeError: exited"), c, "fail_wait")
    ELSE [t EXCEPT !.call[c].pc = "reading", !.call[c].awaits = t.process]

\* start() is called
StartCalled(c) ==
    /\ IsNextCall(tunnel, c)
    /\ LET t == [tunnel EXCEPT !.call[c].op = "start"]
       IN tunnel' = IF ~t.installed
                    THEN [t EXCEPT !.call[c].pc = "installing"]
                    ELSE StartChecked(t, c)
    /\ UNCHANGED NotTunnel

\* install() returns
InstallReturns(c, ok) ==
    /\ tunnel.call[c].pc = "installing"
    /\ tunnel' = IF ok
                 THEN StartChecked([tunnel EXCEPT !.installed = TRUE], c)
                 ELSE Done(Failed(tunnel, c, "RuntimeError: not installed"), c, "raised")
    /\ UNCHANGED NotTunnel

\* create_subprocess_exec returns the new process
ProcessSpawned(c) ==
    /\ tunnel.call[c].pc = "spawning"
    /\ LET new == tunnel.spawned + 1
       IN tunnel' = UrlLoop([tunnel EXCEPT !.process = new, !.spawned = new],
                            c, FALSE)
    /\ UNCHANGED NotTunnel

\* readline returns a line with the URL
UrlFound(c) ==
    /\ tunnel.call[c].pc = "reading"
    /\ tunnel' = Done([tunnel EXCEPT !.public_url = tunnel.call[c].awaits],
                      c, "url")
    /\ UNCHANGED NotTunnel

\* readline returns another line or times out, and the loop goes on or
\* reaches its deadline
LineRead(c, deadline) ==
    /\ tunnel.call[c].pc = "reading"
    /\ tunnel' = UrlLoop(tunnel, c, deadline)
    /\ UNCHANGED NotTunnel

\* readline returns b"": the stream has ended
StreamEnded(c) ==
    /\ tunnel.call[c].pc = "reading"
    /\ tunnel.call[c].awaits \in tunnel.exited
    /\ tunnel' = StopBegun(Failed(tunnel, c, "RuntimeError: stream ended"),
                           c, "fail_wait")
    /\ UNCHANGED NotTunnel

\* stop() is called
StopCalled(c) ==
    /\ IsNextCall(tunnel, c)
    /\ tunnel' = StopBegun([tunnel EXCEPT !.call[c].op = "stop"], c, "stop_wait")
    /\ UNCHANGED NotTunnel

\* wait_for(self.process.wait(), 5.0) returns: the process has exited
WaitReturns(c) ==
    /\ tunnel.call[c].pc \in {"stop_wait", "restart_wait", "fail_wait"}
    /\ tunnel.call[c].awaits \in tunnel.exited
    /\ tunnel' = AfterStop(Cleared(tunnel), c, tunnel.call[c].pc)
    /\ UNCHANGED NotTunnel

\* wait_for times out: self.process.kill(), which raises AttributeError
\* when self.process has become None
WaitTimesOut(c) ==
    /\ tunnel.call[c].pc \in {"stop_wait", "restart_wait", "fail_wait"}
    /\ tunnel' =
         IF tunnel.process = NoProcess
         THEN Done(Failed(Cleared(tunnel), c, "AttributeError"), c, "raised")
         ELSE AfterStop(Cleared([tunnel EXCEPT !.signalled = @ \cup {tunnel.process}]),
                        c, tunnel.call[c].pc)
    /\ UNCHANGED NotTunnel

\* a cloudflared process exits
ProcessExits(p) ==
    /\ p \in 1..tunnel.spawned
    /\ p \notin tunnel.exited
    /\ tunnel' = [tunnel EXCEPT !.exited = @ \cup {p}]
    /\ UNCHANGED NotTunnel

InitTunnel ==
    /\ EarlyUnused
    /\ pii = Unused /\ reflect = Unused /\ whatsapp = Unused
    /\ interp = Unused /\ lifecycle = Unused
    /\ \E installed \in BOOLEAN : tunnel = TunnelManager(installed)

NextTunnel ==
    \/ \E c \in TunnelCalls : StartCalled(c)
    \/ \E c \in TunnelCalls, ok \in BOOLEAN : InstallReturns(c, ok)
    \/ \E c \in TunnelCalls : ProcessSpawned(c)
    \/ \E c \in TunnelCalls : UrlFound(c)
    \/ \E c \in TunnelCalls, deadline \in BOOLEAN : LineRead(c, deadline)
    \/ \E c \in TunnelCalls : StreamEnded(c)
    \/ \E c \in TunnelCalls : StopCalled(c)
    \/ \E c \in TunnelCalls : WaitReturns(c)
    \/ \E c \in TunnelCalls : WaitTimesOut(c)
    \/ \E p \in 1..MaxTunnelCalls : ProcessExits(p)

SpecTunnel == InitTunnel /\ [][NextTunnel]_vars

(***************************************************************************)
(* C27  Under any interleaving of start() and stop() calls no cloudflared  *)
(* process is orphaned: every process the manager spawned is the current   *)
(* self.process or has been sent terminate/kill.                           *)
(***************************************************************************)
C27_NoOrphanProcess ==
    \A p \in 1..tunnel.spawned :
        p = tunnel.process \/ p \in tunnel.signalled

(***************************************************************************)
(* C28  For every inbound message handled by _process_message, whether the *)
(* router stream completes or a step raises, the outbound messages         *)
(* published for it end with exactly one stream-end marker and nothing is  *)
(* published after it.                                                     *)
(***************************************************************************)
C28_OneStreamEndLast ==
    loop.pc = "done" =>
      /\ Cardinality({k \in DOMAIN loop.out : loop.out[k].is_stream_end}) = 1
      /\ loop.out[Len(loop.out)].is_stream_end

(***************************************************************************)
(* C29  After a load that failed to decrypt an existing secrets.enc, the   *)
(* next successful set(n, v) on that store writes a secrets.enc whose map  *)
(* holds n alone, with value v, under the current key: the load may have   *)
(* failed in the call before, or in the set itself.                        *)
(***************************************************************************)
SetAfterFailedLoad ==
    /\ last'.op = "set"
    /\ last'.saved
    /\ \/ last'.how = "failed"
       \/ /\ last.how = "failed"
          /\ ~last.saved
          /\ last.i = last'.i
          /\ last'.how = "cached"

OnlyEntry(n, v) == [x \in {n} |-> v]

C29_SetAfterFailedLoadOverwrites ==
    [][SetAfterFailedLoad =>
         /\ HoldsMap(ident)'
         /\ secrets'.p.d = OnlyEntry(last'.name, last'.value)]_vars

(***************************************************************************)
(* C30  On a collector that starts fresh or from reset() and handles any   *)
(* sequence of events, the aggregate counters equal the sums of their      *)
(* breakdowns: total_tool_calls is the sum of the per-tool call_count and  *)
(* the sum of the daily tool_calls, total_messages the sum of the daily    *)
(* messages, total_errors the sum of the daily errors.                     *)
(***************************************************************************)
RECURSIVE SumOver(_, _, _)
SumOver(breakdown, field, keys) ==
    IF keys = {} THEN 0
    ELSE LET k == CHOOSE x \in keys : TRUE
         IN breakdown[k][field] + SumOver(breakdown, field, keys \ {k})

SumOf(breakdown, field) == SumOver(breakdown, field, DOMAIN breakdown)

C30_TotalsAreSums ==
    /\ collector.total_tool_calls = SumOf(collector.tool_stats, "call_count")
    /\ collector.total_tool_calls = SumOf(collector.daily, "tool_calls")
    /\ collector.total_messages = SumOf(collector.daily, "messages")
    /\ collector.total_errors = SumOf(collector.daily, "errors")

\* tool calls for two tools and an error were counted, on two days
C30_Witness ==
    /\ Cardinality(DOMAIN collector.tool_stats) = 2
    /\ Cardinality(DOMAIN collector.daily) = 2
    /\ collector.total_tool_calls = 2
    /\ collector.total_errors = 1

====
